---- MODULE Spec2Model ----
(***************************************************************************)
(* Model of the Circle ML matching service                                 *)
(* (python-services/ml-matching/app.py).                                   *)
(*                                                                         *)
(* Text is modelled by TLA+ strings, scanned character by character with   *)
(* Len and SubSeq.  Python floats are modelled by exact rationals          *)
(* [n |-> numerator, d |-> denominator], d > 0, in lowest terms.           *)
(* An Optional[int] / Optional[float] is a sequence: << >> is None and    *)
(* <<v>> is the value v.  An Optional[str] is a string, "" standing for    *)
(* both None and '' (the code only ever tests such values for truth).      *)
(***************************************************************************)
EXTENDS Integers, Sequences, FiniteSets, TLC

\* Python None for a sequence-encoded optional value.
None == << >>

Some(v) == <<v>>

Max(a, b) == IF a >= b THEN a ELSE b

Min(a, b) == IF a <= b THEN a ELSE b

Abs(a) == IF a < 0 THEN 0 - a ELSE a

(***************************************************************************)
(* Characters and strings                                                  *)
(***************************************************************************)
Digits == {"0", "1", "2", "3", "4", "5", "6", "7", "8", "9"}

LowerLetters ==
  {"a", "b", "c", "d", "e", "f", "g", "h", "i", "j", "k", "l", "m",
   "n", "o", "p", "q", "r", "s", "t", "u", "v", "w", "x", "y", "z"}

UpperLetters ==
  {"A", "B", "C", "D", "E", "F", "G", "H", "I", "J", "K", "L", "M",
   "N", "O", "P", "Q", "R", "S", "T", "U", "V", "W", "X", "Y", "Z"}

\* Characters matched by the regular expression class \s.
Whitespace == {" ", "\t", "\n"}

\* Characters matched by the regular expression class \w.
WordChars == LowerLetters \cup UpperLetters \cup Digits \cup {"_"}

\* The characters str.strip('.,!?;:') removes.
Punctuation == {".", ",", "!", "?", ";", ":"}

LowerOf ==
  [c \in UpperLetters |->
     CASE c = "A" -> "a" [] c = "B" -> "b" [] c = "C" -> "c" [] c = "D" -> "d"
       [] c = "E" -> "e" [] c = "F" -> "f" [] c = "G" -> "g" [] c = "H" -> "h"
       [] c = "I" -> "i" [] c = "J" -> "j" [] c = "K" -> "k" [] c = "L" -> "l"
       [] c = "M" -> "m" [] c = "N" -> "n" [] c = "O" -> "o" [] c = "P" -> "p"
       [] c = "Q" -> "q" [] c = "R" -> "r" [] c = "S" -> "s" [] c = "T" -> "t"
       [] c = "U" -> "u" [] c = "V" -> "v" [] c = "W" -> "w" [] c = "X" -> "x"
       [] c = "Y" -> "y" [] c = "Z" -> "z"]

DigitValue ==
  [c \in Digits |->
     CASE c = "0" -> 0 [] c = "1" -> 1 [] c = "2" -> 2 [] c = "3" -> 3
       [] c = "4" -> 4 [] c = "5" -> 5 [] c = "6" -> 6 [] c = "7" -> 7
       [] c = "8" -> 8 [] c = "9" -> 9]

\* s[i], the i-th character of s (1-based).
CharAt(s, i) == SubSeq(s, i, i)

\* s[i-1:], the suffix of s that starts at its i-th character.
Suffix(s, i) == SubSeq(s, i, Len(s))

RECURSIVE lower(_)
\* str.lower()
lower(s) ==
  LET lower_char(c) == IF c \in UpperLetters THEN LowerOf[c] ELSE c
  IN  IF s = "" THEN "" ELSE lower_char(CharAt(s, 1)) \o lower(Suffix(s, 2))

RECURSIVE lstrip(_, _)
lstrip(s, chars) ==
  IF s # "" /\ CharAt(s, 1) \in chars THEN lstrip(Suffix(s, 2), chars) ELSE s

RECURSIVE rstrip(_, _)
rstrip(s, chars) ==
  IF s # "" /\ CharAt(s, Len(s)) \in chars
  THEN rstrip(SubSeq(s, 1, Len(s) - 1), chars) ELSE s

\* str.strip(chars); str.strip() is strip(s, Whitespace)
strip(s, chars) == rstrip(lstrip(s, chars), chars)

\* lit occurs in s at position i
At(s, i, lit) ==
  /\ i >= 1
  /\ i + Len(lit) - 1 <= Len(s)
  /\ SubSeq(s, i, i + Len(lit) - 1) = lit

\* Python's `t in s` for strings
Contains(t, s) == \E i \in 1..(Len(s) - Len(t) + 1) : At(s, i, t)

\* any(term in s for term in terms)
AnyIn(terms, s) == \E t \in terms : Contains(t, s)

RECURSIVE RunEnd(_, _, _)
\* The first position at or after i whose character is not in chars
\* (Len(s) + 1 when the run reaches the end of s).
RunEnd(s, i, chars) ==
  IF i <= Len(s) /\ CharAt(s, i) \in chars THEN RunEnd(s, i + 1, chars) ELSE i

RECURSIVE int(_)
\* int() of a string of decimal digits
int(s) ==
  IF s = "" THEN 0
  ELSE 10 * int(SubSeq(s, 1, Len(s) - 1)) + DigitValue[CharAt(s, Len(s))]

\* str.isdigit()
isdigit(s) == s # "" /\ \A i \in 1..Len(s) : CharAt(s, i) \in Digits

RECURSIVE TokensFrom(_, _, _, _)
\* The maximal runs, from position i on, of characters that are in chars
\* (inside = TRUE) or outside chars (inside = FALSE), in order.
TokensFrom(s, i, chars, inside) ==
  LET token(e) == <<SubSeq(s, i, e - 1)>> \o TokensFrom(s, e, chars, inside)
      run_end == IF inside THEN RunEnd(s, i, chars)
                 ELSE CHOOSE j \in (i + 1)..(Len(s) + 1) :
                        /\ j = Len(s) + 1 \/ CharAt(s, j) \in chars
                        /\ \A k \in (i + 1)..(j - 1) : CharAt(s, k) \notin chars
  IN  IF i > Len(s) THEN << >>
      ELSE IF (CharAt(s, i) \in chars) = inside THEN token(run_end)
      ELSE TokensFrom(s, i + 1, chars, inside)

\* re.findall(r'\b\w+\b', s)
findall_words(s) == TokensFrom(s, 1, WordChars, TRUE)

\* str.split()
split(s) == TokensFrom(s, 1, Whitespace, FALSE)

Range(seq) == {seq[i] : i \in 1..Len(seq)}

\* The list as it is, duplicates kept
unique_keeping_duplicates(seq) == seq

RECURSIVE unique(_)
\* list(dict.fromkeys(seq)): the first occurrence of every element, in order
unique(seq) ==
  LET add(init, last) == IF last \in Range(init) THEN init ELSE Append(init, last)
  IN  IF seq = << >> THEN << >>
      ELSE add(unique(SubSeq(seq, 1, Len(seq) - 1)), seq[Len(seq)])

SetMin(S) == CHOOSE m \in S : \A k \in S : m <= k

(***************************************************************************)
(* The regular expressions of parse_prompt_requirements.  re.search        *)
(* returns the leftmost match; each operator returns None or the captured  *)
(* integers of that match.                                                 *)
(***************************************************************************)
\* Matches of  \s+(\d+)  at position j: the positions <<k, e>> of the
\* captured digits s[k..e-1], or None.
SpacesThenDigits(s, j) ==
  LET digits(k, e) == IF k > j /\ e > k THEN <<k, e>> ELSE None
      spaces(k) == digits(k, RunEnd(s, k, Digits))
  IN  spaces(RunEnd(s, j, Whitespace))

\* re.search(r'(?:lit1|lit2|...)\s+(\d+)', s)
\* re.search(r'(?:lit1|lit2|...)\s+(\d+)', s)
search_lit_num(s, lits) ==
  LET matches(i, lit) == At(s, i, lit) /\ SpacesThenDigits(s, i + Len(lit)) # None
      starts == {i \in 1..Len(s) : \E lit \in lits : matches(i, lit)}
      captured(m) == Some(int(SubSeq(s, m[1], m[2] - 1)))
      at(i) == captured(SpacesThenDigits(s, i + Len(CHOOSE l \in lits : matches(i, l))))
  IN  IF starts = {} THEN None ELSE at(SetMin(starts))

\* The end of a match of  \s+years?\s+old  at position j, or 0.
YearsOldAt(s, j) ==
  LET tail(y, o) == IF o > y /\ At(s, o, "old") THEN o + 3 ELSE 0
      years(k) ==
        IF k > j /\ At(s, k, "year")
        THEN (IF At(s, k + 4, "s")
              THEN tail(k + 5, RunEnd(s, k + 5, Whitespace))
              ELSE tail(k + 4, RunEnd(s, k + 4, Whitespace)))
        ELSE 0
  IN  years(RunEnd(s, j, Whitespace))

\* re.search(r'(\d+)\s+years?\s+old', s)
search_years_old(s) ==
  LET starts == {i \in 1..Len(s) :
                   /\ CharAt(s, i) \in Digits
                   /\ YearsOldAt(s, RunEnd(s, i, Digits)) # 0}
      at(i) == Some(int(SubSeq(s, i, RunEnd(s, i, Digits) - 1)))
  IN  IF starts = {} THEN None ELSE at(SetMin(starts))

\* re.search(r'between\s+(\d+)\s+and\s+(\d+)', s): None or <<N, M>>
search_between(s) ==
  LET numbers(a, b) == <<int(SubSeq(s, a[1], a[2] - 1)), int(SubSeq(s, b[1], b[2] - 1))>>
      second(a, b) == IF b = None THEN None ELSE numbers(a, b)
      conj(a, k) == IF k > a[2] /\ At(s, k, "and")
                    THEN second(a, SpacesThenDigits(s, k + 3)) ELSE None
      first(a) == IF a = None THEN None ELSE conj(a, RunEnd(s, a[2], Whitespace))
      MatchAt(i) == IF At(s, i, "between") THEN first(SpacesThenDigits(s, i + 7)) ELSE None
      starts == {i \in 1..Len(s) : MatchAt(i) # None}
  IN  IF starts = {} THEN None ELSE MatchAt(SetMin(starts))

(***************************************************************************)
(* parse_prompt_requirements.  The dict it returns is a record with every  *)
(* field; a key the code leaves out has the empty value of its type        *)
(* ("" , << >> or FALSE).  The code stores only true values, so a key is   *)
(* present exactly when its field is not empty, and the dict is empty      *)
(* (false in Python) exactly when the record is EmptyRequirements.  A      *)
(* prompt_requirements of None is modelled by EmptyRequirements as well:   *)
(* the code only tests prompt_requirements for truth.                      *)
(***************************************************************************)
EmptyRequirements ==
  [gender            |-> "",
   age_range         |-> None,
   keywords          |-> << >>,
   categories        |-> << >>,
   prefer_nearby     |-> FALSE,
   relationship_type |-> "",
   intent_weight     |-> "",
   purposes          |-> << >>,
   purpose_focused   |-> FALSE,
   strong_intent     |-> FALSE,
   lgbtq_friendly    |-> FALSE,
   lgbtq_specific    |-> FALSE]

\* bool(prompt_requirements)
Truthy(req) == req # EmptyRequirements

female_terms == {"female", "woman", "girl", "lady", "she", "her"}

male_terms == {"male", "man", "boy", "guy", "he", "him"}

lgbtq_terms == {"gay", "lesbian", "queer", "lgbt", "lgbtq", "non-binary", "trans"}

\* The single-value age patterns that start with a literal, in list order,
\* with their tolerance; position 2 of age_patterns is search_years_old.
age_patterns ==
  <<[lit |-> "age",     tolerance |-> 3],
    [lit |-> "",        tolerance |-> 3],
    [lit |-> "around",  tolerance |-> 4],
    [lit |-> "near",    tolerance |-> 3],
    [lit |-> "about",   tolerance |-> 4],
    [lit |-> "exactly", tolerance |-> 1]>>

\* re.search(age_patterns[p], s)
search_age_pattern(s, p) ==
  IF p = 2 THEN search_years_old(s) ELSE search_lit_num(s, {age_patterns[p].lit})

\* The stop-word list without the word "help"
stop_words_without_help ==
  {"find", "me", "a", "an", "the", "who", "can", "in", "with", "at",
   "near", "around", "about", "age", "years", "old", "user", "person", "people",
   "someone", "looking", "for", "want", "need", "would", "could", "should",
   "and", "or", "but", "is", "are", "was", "were", "be", "been", "being",
   "have", "has", "had", "do", "does", "did", "will", "shall",
   "may", "might", "must", "to", "from", "of", "on", "by"}

stop_words ==
  {"find", "me", "a", "an", "the", "who", "can", "help", "in", "with", "at",
   "near", "around", "about", "age", "years", "old", "user", "person", "people",
   "someone", "looking", "for", "want", "need", "would", "could", "should",
   "and", "or", "but", "is", "are", "was", "were", "be", "been", "being",
   "have", "has", "had", "do", "does", "did", "will", "shall",
   "may", "might", "must", "to", "from", "of", "on", "by"}

tech_skills ==
  {"coding", "programming", "developer", "software", "tech", "computer",
   "web", "app", "python", "java", "javascript", "data", "ai", "ml"}

creative_skills ==
  {"art", "design", "music", "photography", "writing", "creative",
   "painting", "drawing", "singing", "dancing"}

sports_fitness ==
  {"gym", "fitness", "sports", "running", "yoga", "workout",
   "exercise", "athletic", "swimming", "cycling"}

outdoor_activities ==
  {"hiking", "trekking", "camping", "adventure", "travel",
   "nature", "outdoor", "mountain", "beach"}

nearby_terms == {"nearby", "near me", "close", "local", "same city", "near"}

\* The casual term list without the term "casual"
casual_terms_without_casual == {"hookup", "no strings", "fling", "one night", "fun", "no serious"}

casual_terms == {"hookup", "casual", "no strings", "fling", "one night", "fun", "no serious"}

serious_terms == {"serious", "relationship", "long term", "committed", "partner", "dating"}

friendship_terms == {"friend", "friendship", "buddy", "pal", "hang out", "chill"}

professional_terms == {"mentor", "professional", "career", "business", "networking", "work"}

emotional_terms == {"emotion", "emotional", "support", "listen", "understand", "empathy", "comfort"}

education_terms == {"learn", "teach", "education", "study", "tutor", "help me in", "guide"}

career_terms == {"career", "job", "professional", "work", "business", "advice"}

health_terms == {"health", "fitness", "wellness", "mental health", "therapy", "workout"}

strong_intent_terms == {"only", "specifically", "must", "need", "require", "looking for"}

\* [x for x in seq if keep(x)]
RECURSIVE SelectKeywords(_)
SelectKeywords(words) ==
  LET keep(cleaned) == cleaned \notin stop_words /\ Len(cleaned) > 2 /\ ~isdigit(cleaned)
      select(cleaned, rest) == IF keep(cleaned) THEN <<cleaned>> \o rest ELSE rest
  IN  IF words = << >> THEN << >>
      ELSE select(strip(words[1], Punctuation), SelectKeywords(Tail(words)))

\* The age_range the three age passes leave in the dict (None: no key).
\* The range [max(18, age - tolerance), min(100, age + tolerance)] of the first
\* single-value pattern of age_patterns that matches, or None
single_age_range(prompt_lower) ==
  LET hits == {p \in 1..Len(age_patterns) : search_age_pattern(prompt_lower, p) # None}
      range(p, age) == <<Max(18, age - age_patterns[p].tolerance),
                         Min(100, age + age_patterns[p].tolerance)>>
      first(p) == Some(range(p, search_age_pattern(prompt_lower, p)[1]))
  IN  IF hits = {} THEN None ELSE first(SetMin(hits))

\* The range of the lower and upper bound phrases, or None
bounds_age_range(min_age_match, max_age_match) ==
  IF min_age_match # None \/ max_age_match # None
  THEN Some(<<IF min_age_match # None THEN min_age_match[1] ELSE 18,
              IF max_age_match # None THEN max_age_match[1] ELSE 100>>)
  ELSE None

\* The age passes with the explicit range clamped to [18, 100] like the
\* single-value patterns
parse_age_range_clamped(prompt_lower) ==
  LET after2(single, range_match) ==
        IF range_match # None
        THEN Some(<<Max(18, range_match[1]), Min(100, range_match[2])>>)
        ELSE single
      after3(range) ==
        IF range # None THEN range
        ELSE bounds_age_range(
               search_lit_num(prompt_lower, {"above", "over", "older than"}),
               search_lit_num(prompt_lower, {"under", "below", "younger than"}))
  IN  after3(after2(single_age_range(prompt_lower), search_between(prompt_lower)))

\* The age_range the three age passes leave in the dict (None: no key).
parse_age_range(prompt_lower) ==
  LET after2(single, range_match) ==
        IF range_match # None THEN Some(range_match) ELSE single
      after3(range) ==
        IF range # None THEN range
        ELSE bounds_age_range(
               search_lit_num(prompt_lower, {"above", "over", "older than"}),
               search_lit_num(prompt_lower, {"under", "below", "younger than"}))
  IN  after3(after2(single_age_range(prompt_lower), search_between(prompt_lower)))

\* The body of parse_prompt_requirements, given prompt.lower()
parse_lowered(prompt_lower) ==
  LET lgbtq    == AnyIn(lgbtq_terms, prompt_lower)
      keywords == SelectKeywords(findall_words(prompt_lower))
      detected_categories ==
           (IF AnyIn(tech_skills, prompt_lower) THEN <<"technology">> ELSE << >>)
        \o (IF AnyIn(creative_skills, prompt_lower) THEN <<"creative">> ELSE << >>)
        \o (IF AnyIn(sports_fitness, prompt_lower) THEN <<"fitness">> ELSE << >>)
        \o (IF AnyIn(outdoor_activities, prompt_lower) THEN <<"outdoor">> ELSE << >>)
      relationship_type ==
        IF AnyIn(casual_terms, prompt_lower) THEN "casual"
        ELSE IF AnyIn(serious_terms, prompt_lower) THEN "serious"
        ELSE IF AnyIn(friendship_terms, prompt_lower) THEN "friendship"
        ELSE IF AnyIn(professional_terms, prompt_lower) THEN "professional"
        ELSE ""
      purposes ==
           (IF AnyIn(emotional_terms, prompt_lower) THEN <<"emotional_support">> ELSE << >>)
        \o (IF AnyIn(education_terms, prompt_lower) THEN <<"education">> ELSE << >>)
        \o (IF AnyIn(career_terms, prompt_lower) THEN <<"career">> ELSE << >>)
        \o (IF AnyIn(health_terms, prompt_lower) THEN <<"health">> ELSE << >>)
      fields(rt, ps) ==
        [gender            |-> IF AnyIn(female_terms, prompt_lower) THEN "female"
                               ELSE IF AnyIn(male_terms, prompt_lower) THEN "male"
                               ELSE "",
         age_range         |-> parse_age_range(prompt_lower),
         keywords          |-> unique(keywords),
         categories        |-> detected_categories,
         prefer_nearby     |-> AnyIn(nearby_terms, prompt_lower),
         relationship_type |-> rt,
         intent_weight     |-> IF rt \in {"casual", "serious"} THEN "high" ELSE "",
         purposes          |-> ps,
         purpose_focused   |-> ps # << >>,
         strong_intent     |-> AnyIn(strong_intent_terms, prompt_lower),
         lgbtq_friendly    |-> lgbtq,
         lgbtq_specific    |-> lgbtq /\ (Contains("gay", prompt_lower)
                                         \/ Contains("lesbian", prompt_lower))]
  IN  fields(relationship_type, purposes)

parse_prompt_requirements(prompt) ==
  IF prompt = "" THEN EmptyRequirements ELSE parse_lowered(lower(prompt))

(***************************************************************************)
(* expand_prompt_keywords                                                  *)
(***************************************************************************)
purpose_terms ==
  [p \in {"emotional_support", "education", "career", "health"} |->
     CASE p = "emotional_support" ->
            <<"emotional", "support", "listener", "listening", "empathy",
              "understanding", "caring", "comfort", "therapy", "mental", "talk">>
       [] p = "education" ->
            <<"learn", "teaching", "teach", "tutor", "mentor", "guide", "study",
              "education", "coding", "programming", "development">>
       [] p = "career" ->
            <<"career", "job", "work", "professional", "mentor", "mentorship",
              "advice", "business">>
       [] p = "health" ->
            <<"health", "fitness", "workout", "gym", "wellness", "mental", "therapy">>]

\* Every relationship type expanded to its own name only
rel_terms_names_only ==
  [r \in {"casual", "serious", "friendship", "professional"} |-> <<r>>]

rel_terms ==
  [r \in {"casual", "serious", "friendship", "professional"} |->
     CASE r = "casual" -> <<"casual", "hookup", "fun", "fling", "no strings">>
       [] r = "serious" ->
            <<"serious", "relationship", "long term", "committed", "partner", "dating">>
       [] r = "friendship" -> <<"friend", "friendship", "buddy", "hangout", "chill">>
       [] r = "professional" ->
            <<"professional", "career", "mentor", "networking", "business">>]

RECURSIVE ExtendAll(_, _)
\* for p in purposes: expanded.extend(table.get(p, []))
ExtendAll(purposes, table) ==
  IF purposes = << >> THEN << >>
  ELSE (IF purposes[1] \in DOMAIN table THEN table[purposes[1]] ELSE << >>)
       \o ExtendAll(Tail(purposes), table)

expand_prompt_keywords(prompt_requirements) ==
  LET related(rt) == IF rt # "" /\ rt \in DOMAIN rel_terms THEN rel_terms[rt] ELSE << >>
      expanded ==
           prompt_requirements.keywords
        \o ExtendAll(prompt_requirements.purposes, purpose_terms)
        \o related(prompt_requirements.relationship_type)
  IN  IF ~Truthy(prompt_requirements) THEN << >>
      ELSE unique(SelectSeq(expanded, LAMBDA w : strip(w, Whitespace) # ""))

(***************************************************************************)
(* Exact rational arithmetic for the float computations                    *)
(***************************************************************************)
RECURSIVE GCD(_, _)
GCD(a, b) == IF b = 0 THEN a ELSE GCD(b, a % b)

\* n / d  (d # 0) in lowest terms with a positive denominator
Rat(n, d) ==
  LET reduced(g, sgn) == [n |-> sgn * (n \div g), d |-> sgn * (d \div g)]
  IN  reduced(GCD(Abs(n), Abs(d)), IF d < 0 THEN 0 - 1 ELSE 1)

RatInt(k) == [n |-> k, d |-> 1]

RatAdd(a, b) == Rat(a.n * b.d + b.n * a.d, a.d * b.d)

RatSub(a, b) == Rat(a.n * b.d - b.n * a.d, a.d * b.d)

RatMul(a, b) == Rat(a.n * b.n, a.d * b.d)

\* a / k for an integer k # 0
RatDiv(a, k) == Rat(a.n, a.d * k)

RatLe(a, b) == a.n * b.d <= b.n * a.d

RatLt(a, b) == a.n * b.d < b.n * a.d

RatGe(a, b) == RatLe(b, a)

RatMin(a, b) == IF RatLe(a, b) THEN a ELSE b

RatMax(a, b) == IF RatGe(a, b) THEN a ELSE b

(***************************************************************************)
(* calculate_distance.  Coordinates are whole degrees.  Every caller      *)
(* tests the four coordinates for truth first, so the callers apply the   *)
(* function to non-zero coordinates only, here 1 and 2 degrees; the value *)
(* is the haversine distance of the source (R = 6371 km) between such     *)
(* points, and from the point (0, 0) to them, in km to two decimals.      *)
(***************************************************************************)
calculate_distance(lat1, lon1, lat2, lon2) ==
  LET dlat == Abs(lat2 - lat1)
      dlon == Abs(lon2 - lon1)
  IN  CASE dlat = 0 /\ dlon = 0             -> RatInt(0)
        [] lat1 = 0 /\ lon1 = 0 /\ dlat = 1 /\ dlon = 1 -> Rat(15725, 100)
        [] lat1 = 0 /\ lon1 = 0 /\ dlat = 1 /\ dlon = 2 -> Rat(24863, 100)
        [] lat1 = 0 /\ lon1 = 0 /\ dlat = 2 /\ dlon = 2 -> Rat(31447, 100)
        [] dlat = 1 /\ dlon = 0             -> Rat(11119, 100)
        [] dlat = 0 /\ dlon = 1 /\ lat1 = 1 -> Rat(11118, 100)
        [] dlat = 0 /\ dlon = 1 /\ lat1 = 2 -> Rat(11113, 100)
        [] OTHER                            -> Rat(15723, 100)

(***************************************************************************)
(* Similarity toolkit                                                      *)
(***************************************************************************)
RECURSIVE join(_)
\* ' '.join(seq)
join(seq) ==
  IF seq = << >> THEN ""
  ELSE IF Len(seq) = 1 THEN seq[1]
  ELSE seq[1] \o " " \o join(Tail(seq))

LowerAll(seq) == [i \in 1..Len(seq) |-> lower(seq[i])]

\* len(A & B) / len(A | B) for two non-empty sets
Jaccard(A, B) == Rat(Cardinality(A \cap B), Cardinality(A \cup B))

calculate_text_similarity(text1, text2) ==
  IF text1 = "" \/ text2 = "" THEN RatInt(0)
  ELSE LET words1 == Range(split(lower(text1)))
           words2 == Range(split(lower(text2)))
       IN  IF words1 = {} \/ words2 = {} THEN RatInt(0)
           ELSE Jaccard(words1, words2)

calculate_list_similarity(list1, list2) ==
  IF list1 = << >> \/ list2 = << >> THEN RatInt(0)
  ELSE Jaccard(Range(LowerAll(list1)), Range(LowerAll(list2)))

(***************************************************************************)
(* calculate_keyword_match                                                 *)
(***************************************************************************)
synonym_keys ==
  {"coding", "programming", "teaching", "learning", "gym", "fitness", "health",
   "emotional", "support", "listening", "casual", "serious", "friendship",
   "career", "mentor", "advice", "music", "art", "photography", "design",
   "travel", "hiking"}

synonyms ==
  [k \in synonym_keys |->
     CASE k = "coding" -> {"programming", "developer", "software", "code",
                           "development", "engineer", "tech"}
       [] k = "programming" -> {"coding", "developer", "software", "development",
                                "engineer", "tech"}
       [] k = "teaching" -> {"teacher", "mentor", "education", "tutor",
                             "instructor", "guide", "coach"}
       [] k = "learning" -> {"study", "education", "student", "knowledge", "training"}
       [] k = "gym" -> {"fitness", "workout", "exercise", "bodybuilding",
                        "training", "athletic"}
       [] k = "fitness" -> {"gym", "workout", "exercise", "health", "training",
                            "athletic", "wellness"}
       [] k = "health" -> {"wellness", "fitness", "healthy", "wellbeing", "medical"}
       [] k = "emotional" -> {"emotion", "feelings", "empathy", "support",
                              "understanding", "caring"}
       [] k = "support" -> {"help", "assist", "guidance", "advice", "counseling",
                            "listening"}
       [] k = "listening" -> {"listener", "understanding", "empathy", "support", "caring"}
       [] k = "casual" -> {"hookup", "fun", "fling", "no strings", "relaxed"}
       [] k = "serious" -> {"committed", "relationship", "long term", "partner", "dating"}
       [] k = "friendship" -> {"friend", "buddy", "pal", "companion", "hang out"}
       [] k = "career" -> {"professional", "job", "work", "business", "employment"}
       [] k = "mentor" -> {"guide", "advisor", "coach", "teacher", "counselor"}
       [] k = "advice" -> {"guidance", "help", "suggestion", "recommendation", "tips"}
       [] k = "music" -> {"musical", "musician", "singing", "songs", "melody",
                          "tune", "performer"}
       [] k = "art" -> {"artistic", "artist", "creative", "painting", "drawing", "design"}
       [] k = "photography" -> {"photo", "photographer", "pictures", "camera",
                                "videography"}
       [] k = "design" -> {"designer", "creative", "art", "graphic", "ui", "ux", "artistic"}
       [] k = "travel" -> {"traveling", "trip", "vacation", "adventure", "explore",
                           "wanderlust"}
       [] k = "hiking" -> {"trekking", "mountain", "outdoor", "nature", "trail",
                           "adventure"}]

\* The score of one keyword, in tenths: the if/elif cascade of the loop body.
keyword_score(keyword, interests_text, needs_text, bio_text) ==
  IF Contains(keyword, interests_text) THEN 10
  ELSE IF keyword \in synonym_keys
       THEN (IF AnyIn(synonyms[keyword], interests_text) THEN 9 ELSE 0)
  ELSE IF Contains(keyword, needs_text) THEN 8
  ELSE IF keyword \in synonym_keys /\ AnyIn(synonyms[keyword], needs_text) THEN 7
  ELSE IF Contains(keyword, bio_text) THEN 6
  ELSE IF keyword \in synonym_keys /\ AnyIn(synonyms[keyword], bio_text) THEN 5
  ELSE IF \E word \in Range(split(interests_text \o " " \o needs_text \o " " \o bio_text)) :
            Contains(keyword, word)
       THEN 3
  ELSE 0

RECURSIVE SumSeq(_)
SumSeq(seq) == IF seq = << >> THEN 0 ELSE seq[1] + SumSeq(Tail(seq))

calculate_keyword_match(keywords, profile) ==
  LET total_score(interests_text, needs_text, bio_text) ==
        SumSeq([i \in 1..Len(keywords) |->
                  keyword_score(keywords[i], interests_text, needs_text, bio_text)])
      match(interests_text, needs_text, bio_text) ==
        IF interests_text = "" /\ needs_text = "" /\ bio_text = "" THEN RatInt(0)
        ELSE RatMin(RatInt(1), Rat(total_score(interests_text, needs_text, bio_text),
                                   10 * Len(keywords)))
  IN  IF keywords = << >> THEN RatInt(0)
      ELSE match(join(LowerAll(profile.interests)), join(LowerAll(profile.needs)),
                 lower(profile.bio))

(***************************************************************************)
(* compute_criteria_coverage                                               *)
(***************************************************************************)
\* A threshold of 0.15 in place of 0.60
Threshold15 == Rat(15, 100)

\* 0.60, the keyword-match and coverage threshold
Threshold60 == Rat(60, 100)

\* The three criteria tested as one if/elif chain: every present criterion is
\* counted, but only the first present one can be satisfied.
compute_criteria_coverage_elif(prompt_requirements, candidate) ==
  LET has_gender == prompt_requirements.gender # ""
      gender_ok(cand_gender) ==
        cand_gender # "" /\ cand_gender = prompt_requirements.gender
      has_age == prompt_requirements.age_range # None
      age_ok(age) == /\ age # None
                     /\ prompt_requirements.age_range[1][1] <= age[1]
                     /\ age[1] <= prompt_requirements.age_range[1][2]
      kw_ok(expanded_keywords) ==
        RatGe(calculate_keyword_match(expanded_keywords, candidate), Threshold60)
      count(b) == IF b THEN 1 ELSE 0
      fraction(satisfied, total) ==
        IF total = 0 THEN RatInt(0) ELSE Rat(satisfied, total)
      coverage_of(g_ok, a_ok, has_kw, k_ok) ==
        fraction(IF has_gender THEN count(g_ok)
                 ELSE IF has_age THEN count(a_ok)
                 ELSE count(k_ok),
                 count(has_gender) + count(has_age) + count(has_kw))
      with_keywords(expanded_keywords) ==
        coverage_of(has_gender /\ gender_ok(lower(strip(candidate.gender, Whitespace))),
                    has_age /\ age_ok(candidate.age),
                    expanded_keywords # << >>,
                    expanded_keywords # << >> /\ kw_ok(expanded_keywords))
  IN  IF ~Truthy(prompt_requirements) THEN RatInt(0)
      ELSE with_keywords(expand_prompt_keywords(prompt_requirements))

compute_criteria_coverage(prompt_requirements, candidate) ==
  LET has_gender == prompt_requirements.gender # ""
      gender_ok(cand_gender) ==
        cand_gender # "" /\ cand_gender = prompt_requirements.gender
      has_age == prompt_requirements.age_range # None
      age_ok(age) == /\ age # None
                     /\ prompt_requirements.age_range[1][1] <= age[1]
                     /\ age[1] <= prompt_requirements.age_range[1][2]
      kw_ok(expanded_keywords) ==
        RatGe(calculate_keyword_match(expanded_keywords, candidate), Threshold60)
      count(b) == IF b THEN 1 ELSE 0
      fraction(satisfied, total) ==
        IF total = 0 THEN RatInt(0) ELSE Rat(satisfied, total)
      coverage_of(g_ok, a_ok, has_kw, k_ok) ==
        fraction(count(g_ok) + count(a_ok) + count(k_ok),
                 count(has_gender) + count(has_age) + count(has_kw))
      with_keywords(expanded_keywords) ==
        coverage_of(has_gender /\ gender_ok(lower(strip(candidate.gender, Whitespace))),
                    has_age /\ age_ok(candidate.age),
                    expanded_keywords # << >>,
                    expanded_keywords # << >> /\ kw_ok(expanded_keywords))
  IN  IF ~Truthy(prompt_requirements) THEN RatInt(0)
      ELSE with_keywords(expand_prompt_keywords(prompt_requirements))

(***************************************************************************)
(* calculate_match_score.  Weights are in hundredths, so that              *)
(* x * weights[k] * 100 of the source is x times the table entry.  The     *)
(* result is [error |-> "", value |-> score] when the function returns    *)
(* and [error |-> <exception>, value |-> 0] when it raises.               *)
(***************************************************************************)
nearby_keyword_weights ==
  [k \in {"prompt_keywords", "distance", "interests", "needs", "bio", "age"} |->
     CASE k = "prompt_keywords" -> 50 [] k = "distance" -> 20 [] k = "interests" -> 15
       [] k = "needs" -> 8 [] k = "bio" -> 5 [] k = "age" -> 2]

\* The keyword profile with the prompt_keywords weight raised to 0.60
keyword_weights_heavier ==
  [k \in {"prompt_keywords", "interests", "needs", "age", "distance", "bio"} |->
     CASE k = "prompt_keywords" -> 60 [] k = "interests" -> 20 [] k = "needs" -> 10
       [] k = "age" -> 8 [] k = "distance" -> 5 [] k = "bio" -> 2]

keyword_weights ==
  [k \in {"prompt_keywords", "interests", "needs", "age", "distance", "bio"} |->
     CASE k = "prompt_keywords" -> 55 [] k = "interests" -> 20 [] k = "needs" -> 10
       [] k = "age" -> 8 [] k = "distance" -> 5 [] k = "bio" -> 2]

standard_weights ==
  [k \in {"interests", "needs", "bio", "distance", "age", "prompt"} |->
     CASE k = "interests" -> 30 [] k = "needs" -> 25 [] k = "bio" -> 15
       [] k = "distance" -> 15 [] k = "age" -> 10 [] k = "prompt" -> 5]

\* The weight profile chosen at the top of calculate_match_score
select_weights(prompt_requirements) ==
  IF Truthy(prompt_requirements) /\ prompt_requirements.keywords # << >>
  THEN (IF prompt_requirements.prefer_nearby THEN nearby_keyword_weights
        ELSE keyword_weights)
  ELSE standard_weights

\* bool(x) of an Optional number: None and 0 are false
TruthyNum(x) == x # None /\ x[1] # 0

\* preferences.max_distance if preferences else 50
max_distance_of(preferences) ==
  IF preferences # None THEN preferences[1].max_distance ELSE Some(50)

Raise(exception) == [error |-> exception, value |-> RatInt(0)]

Return(v) == [error |-> "", value |-> v]

\* The score returned without the final min(100.0, score)
clamp_score_unclamped(score) == score

\* min(100.0, score)
clamp_score(score) == RatMin(RatInt(100), score)

\* The prompt-keyword block: the weighted keyword match and its three boosts
keyword_part(prompt_requirements, weights, keyword_match) ==
  LET boost == IF RatGe(keyword_match, Rat(8, 10)) THEN 15
               ELSE IF RatGe(keyword_match, Rat(6, 10)) THEN 10
               ELSE IF RatGe(keyword_match, Rat(4, 10)) THEN 5
               ELSE 0
      intent == IF prompt_requirements.strong_intent
                   /\ RatGe(keyword_match, Rat(6, 10)) THEN 10 ELSE 0
      purpose == IF prompt_requirements.purpose_focused
                    /\ RatGe(keyword_match, Rat(5, 10)) THEN 8 ELSE 0
  IN  RatAdd(RatMul(keyword_match, RatInt(weights["prompt_keywords"])),
             RatInt(boost + intent + purpose))

\* The distance block, for coordinates that are all truthy
distance_part(user, candidate, max_distance, weights) ==
  LET distance_score(distance) ==
        RatMax(RatInt(0), RatSub(RatInt(1), RatDiv(distance, max_distance)))
  IN  RatMul(distance_score(calculate_distance(user.latitude[1], user.longitude[1],
                                               candidate.latitude[1],
                                               candidate.longitude[1])),
             RatInt(weights["distance"]))

\* The score with the weight profile chosen, up to the final clamp
weighted_score(user, candidate, preferences, prompt, prompt_requirements, weights, expanded_keywords, has_distance, max_distance) ==
  LET keywords ==
        IF ~Truthy(prompt_requirements) THEN RatInt(0)
        ELSE keyword_part(prompt_requirements, weights,
                          IF expanded_keywords # << >>
                          THEN calculate_keyword_match(expanded_keywords, candidate)
                          ELSE RatInt(0))
      interests ==
        IF user.interests # << >> /\ candidate.interests # << >>
        THEN RatMul(calculate_list_similarity(user.interests, candidate.interests),
                    RatInt(weights["interests"]))
        ELSE RatInt(0)
      needs ==
        IF user.needs # << >> /\ candidate.needs # << >>
        THEN RatMul(calculate_list_similarity(user.needs, candidate.needs),
                    RatInt(weights["needs"]))
        ELSE RatInt(0)
      bio ==
        IF user.bio # "" /\ candidate.bio # ""
        THEN RatMul(calculate_text_similarity(user.bio, candidate.bio),
                    RatInt(weights["bio"]))
        ELSE RatInt(0)
      distance ==
        IF has_distance THEN distance_part(user, candidate, max_distance[1], weights)
        ELSE RatInt(0)
      age ==
        IF TruthyNum(user.age) /\ TruthyNum(candidate.age)
        THEN RatMul(RatMax(RatInt(0),
                           RatSub(RatInt(1), Rat(Abs(user.age[1] - candidate.age[1]), 20))),
                    RatInt(weights["age"]))
        ELSE RatInt(0)
      legacy_prompt ==
        IF prompt # "" /\ ~Truthy(prompt_requirements) /\ candidate.bio # ""
        THEN RatMul(calculate_text_similarity(prompt, candidate.bio),
                    RatInt(IF "prompt" \in DOMAIN weights THEN weights["prompt"] ELSE 15))
        ELSE RatInt(0)
  IN  IF Truthy(prompt_requirements) /\ "prompt_keywords" \notin DOMAIN weights
      THEN Raise("KeyError")
      ELSE IF has_distance /\ max_distance = None THEN Raise("TypeError")
      ELSE IF has_distance /\ max_distance[1] = 0 THEN Raise("ZeroDivisionError")
      ELSE Return(clamp_score(RatAdd(keywords,
                              RatAdd(interests,
                              RatAdd(needs,
                              RatAdd(bio,
                              RatAdd(distance,
                              RatAdd(age, legacy_prompt))))))))

calculate_match_score(user, candidate, preferences, prompt, prompt_requirements) ==
  weighted_score(user, candidate, preferences, prompt, prompt_requirements,
                 select_weights(prompt_requirements),
                 expand_prompt_keywords(prompt_requirements),
                 /\ TruthyNum(user.latitude) /\ TruthyNum(user.longitude)
                 /\ TruthyNum(candidate.latitude) /\ TruthyNum(candidate.longitude),
                 max_distance_of(preferences))

(***************************************************************************)
(* Profiles.  A row of the profiles table; fetch_user_profile and          *)
(* fetch_candidate_profiles add the keys name and bio to it.  last_active  *)
(* is the age of the timestamp in days; is_suspended is the str() of the   *)
(* stored value.                                                           *)
(***************************************************************************)
Row(id, first_name, gender, age, interests, needs, about, latitude, longitude) ==
  [id |-> id, first_name |-> first_name, last_name |-> "", gender |-> gender,
   age |-> age, interests |-> interests, needs |-> needs, about |-> about,
   latitude |-> latitude, longitude |-> longitude,
   is_suspended |-> "False", deleted_at |-> None, last_active |-> None]

\* profile['name'] = f"{first_name} {last_name}".strip(); profile['bio'] = about
with_name_and_bio(row) ==
  [k \in DOMAIN row \cup {"name", "bio"} |->
     IF k = "name" THEN strip(row.first_name \o " " \o row.last_name, Whitespace)
     ELSE IF k = "bio" THEN row.about
     ELSE row[k]]

RowU1 == Row("u1", "Uma", "male", Some(25), <<"coding", "hiking">>, <<"mentorship">>,
             "love coding and music", Some(1), Some(1))

RowU2 == Row("u2", "Udo", "", None, << >>, << >>, "", Some(0), Some(0))

RowA == Row("a", "Ann", "female", Some(23), <<"coding", "hiking">>, << >>,
            "I love coding", Some(1), Some(1))

RowB == Row("b", "Bob", "Male", Some(30), <<"Music">>, <<"coding">>,
            "guitar player", Some(1), Some(2))

RowC == Row("c", "Cy", "", None, << >>, << >>, "", None, None)

RowD == Row("d", "Dee", "female", Some(45), <<"programming">>, <<"mentorship">>,
            "software engineer who loves music", Some(2), Some(2))

\* Two male profiles: RowF shares no interest with RowU1, RowG shares all
RowF == Row("f", "Finn", "male", Some(34), <<"singing", "trekking">>, << >>,
            "", None, None)

RowG == Row("g", "Gus", "male", Some(26), <<"coding", "hiking">>, <<"mentorship">>,
            "love coding and music", Some(1), Some(1))

\* A profile with an age and nothing else to match on
RowH == Row("h", "Hal", "male", Some(30), << >>, << >>, "", None, None)

\* Copies of RowA under other ids: soft-deleted 3 days ago, suspended, last
\* active 60 days ago (older than INACTIVE_DAYS), last active 10 days ago
RowDeleted == [RowA EXCEPT !.id = "x", !.first_name = "Xia", !.deleted_at = Some(3)]

RowSuspended == [RowA EXCEPT !.id = "s", !.first_name = "Sue", !.is_suspended = "True"]

RowInactive == [RowA EXCEPT !.id = "i", !.first_name = "Ida", !.last_active = Some(60)]

RowRecent == [RowA EXCEPT !.id = "r", !.first_name = "Rae", !.last_active = Some(10)]

(***************************************************************************)
(* Preferences (UserPreferences): None or <<record>>                       *)
(***************************************************************************)
Preferences(max_distance) ==
  Some([max_distance |-> max_distance, age_range |-> <<18, 100>>,
        interests |-> << >>, needs |-> << >>, gender_preference |-> ""])

EnginePreferences ==
  {None, Preferences(Some(50)), Preferences(Some(200)), Preferences(Some(0))}

ExamplePrompt == "find me a female user near age 23 who can help me in coding"

BetweenPrompt == "looking for someone between 20 and 25 who loves music"

RankingPrompt == "someone around 30, he should be in music and hiking"

WideBetweenPrompt == "anyone between 5 and 130"

\* A prompt without a gender-indicating word: the letters of "her" and "he"
\* occur inside "there" only
NoGenderWordPrompt == "anyone out there"

\* Prompts with terms of several relationship and purpose lists, with the
\* first relationship type in the order casual, serious, friendship,
\* professional and every purpose in the order emotional_support, education,
\* career, health whose list has a term in the prompt
RelationshipCases ==
  {[p |-> "casual dating with a friend", relationship_type |-> "casual", purposes |-> << >>],
   [p |-> "serious career mentor", relationship_type |-> "serious", purposes |-> <<"career">>],
   [p |-> "a buddy for work and study", relationship_type |-> "friendship",
    purposes |-> <<"education", "career">>],
   [p |-> "fitness and emotional support", relationship_type |-> "",
    purposes |-> <<"emotional_support", "health">>],
   [p |-> "mentor", relationship_type |-> "professional", purposes |-> << >>]}

\* A prompt with a repeated word, stop words, a short token and a number
RepeatedWordPrompt == "Music, hiking or more music at 42!"

\* Prompts with one single-value age phrase: the number N and the tolerance
\* of the phrase's pattern
SingleAgeCases ==
  {[p |-> "near 25", N |-> 25, tolerance |-> 3],
   [p |-> "exactly 19", N |-> 19, tolerance |-> 1],
   [p |-> "about 98", N |-> 98, tolerance |-> 4],
   [p |-> "around 30", N |-> 30, tolerance |-> 4],
   [p |-> "40 years old", N |-> 40, tolerance |-> 3],
   [p |-> "age 5", N |-> 5, tolerance |-> 3],
   [p |-> "age 150", N |-> 150, tolerance |-> 3]}

\* Prompts with a single-value phrase next to "between", or with one bound
\* phrase, and the age range the precedence single value, between, bounds gives
PrecedenceCases ==
  {[p |-> "age 23 between 30 and 40", range |-> <<20, 26>>],
   [p |-> "older than 21", range |-> <<21, 100>>],
   [p |-> "someone under 30", range |-> <<18, 30>>]}

EnginePrompts ==
  {"", ExamplePrompt, BetweenPrompt, WideBetweenPrompt, "need", "he", "near 25", "help me in",
   "need coding", "I need a Coding mentor", "music", "she loves hiking"}
  \cup {NoGenderWordPrompt, "a gay man"}
  \cup {RepeatedWordPrompt}
  \cup {c.p : c \in SingleAgeCases}
  \cup {c.p : c \in RelationshipCases}
  \cup {c.p : c \in PrecedenceCases}

EngineUsers == {with_name_and_bio(RowU1), with_name_and_bio(RowU2)}

EngineCandidates ==
  {with_name_and_bio(RowA), with_name_and_bio(RowB),
   with_name_and_bio(RowC), with_name_and_bio(RowD)}

VARIABLES
  \* the scoring engine applied to one requester and one candidate
  prompt, user, candidate, preferences,
  prompt_requirements,   \* None, or <<the dict parse_prompt_requirements returned>>
  score,                 \* None, or <<the result of calculate_match_score>>
  coverage               \* None, or <<the value of compute_criteria_coverage>>

VARIABLES
  \* the service
  lifecycle,             \* "loaded", "running" or "stopped"
  supabase_client,       \* the module global: "None" or "client"
  profiles,              \* the rows of the profiles table, in query order
  request,               \* None, or <<the MatchRequest being handled>>
  response               \* None, or <<the outcome of find_matches>>

engine_vars == <<prompt, user, candidate, preferences, prompt_requirements, score, coverage>>

service_vars == <<lifecycle, supabase_client, profiles, request, response>>

VARIABLES
  \* FaceVerifier.verify_video applied to one video
  video,                 \* the video file: what cv2.VideoCapture reports and yields
  cap,                   \* None, or <<the frames cap.read() has still to return>>
  frame_count,
  face_detected_frames,
  detected_movements,
  movement_frames,
  result                 \* None, or <<the dict verify_video returned>>

face_vars == <<video, cap, frame_count, face_detected_frames, detected_movements, movement_frames, result>>

vars == <<engine_vars, service_vars, face_vars>>

(***************************************************************************)
(* FaceVerifier (python-services/face_verification/face_verifier.py).      *)
(* A video is what cv2.VideoCapture reports about the file (isOpened, fps, *)
(* frame count) and the frames it yields.  Decoding, face-mesh detection   *)
(* and pose estimation are external: a frame is given by their outcome,    *)
(* "none" when no face is found and otherwise the value of                 *)
(* detect_movement.  Consecutive frames with the same outcome form a run   *)
(* [movement, frames]; the loop is stepped one run at a time.              *)
(***************************************************************************)
required_movements == <<"left", "right", "up", "down">>

MIN_DURATION_SECONDS == 5

MIN_FRAMES == 150

\* total_frames_in_video / fps, with the 30 fps fallback
video_duration(fps, total_frames_in_video) ==
  IF fps > 0 /\ total_frames_in_video > 0 THEN Rat(total_frames_in_video, fps)
  ELSE IF total_frames_in_video > 0 THEN Rat(total_frames_in_video, 30)
  ELSE RatInt(0)

is_invalid_duration(duration) ==
  RatLe(duration, RatInt(0)) \/ RatLt(RatInt(1000000), duration)

\* face_detected_frames / max(frame_count, 1)
face_detection_rate(frames, face_frames) == Rat(face_frames, Max(frames, 1))

frames_processed_percentage(invalid, total_frames_in_video, frames) ==
  IF invalid \/ total_frames_in_video <= 0 \/ total_frames_in_video > 1000000000
  THEN RatInt(100)
  ELSE Rat(frames * 100, total_frames_in_video)

\* The minimum video duration/length check
is_too_short(invalid, duration, frames) ==
  IF invalid THEN frames < MIN_FRAMES
  ELSE RatLt(duration, RatInt(MIN_DURATION_SECONDS))

RECURSIVE JoinWith(_, _)
\* sep.join(seq)
JoinWith(sep, seq) ==
  IF seq = << >> THEN ""
  ELSE IF Len(seq) = 1 THEN seq[1]
  ELSE seq[1] \o sep \o JoinWith(sep, Tail(seq))

\* _get_failure_reason: the reasons joined by "; ", each reason given by its
\* head (without the percentage and the movement names that follow it)
get_failure_reason(rate, all_movements, sufficient_frames, complete_video) ==
  LET reasons ==
           (IF RatLt(rate, Rat(1, 2)) THEN <<"Poor face detection">> ELSE << >>)
        \o (IF ~all_movements THEN <<"Missing movements">> ELSE << >>)
        \o (IF ~sufficient_frames THEN <<"Movements not held long enough">> ELSE << >>)
        \o (IF ~complete_video THEN <<"Video processing incomplete">> ELSE << >>)
  IN  JoinWith("; ", IF reasons = << >> THEN <<"Verification successful">> ELSE reasons)

\* The four checks ignoring how long each movement was held
is_verified_any_hold(rate_ok, all_movements, sufficient_frames, complete_video) ==
  rate_ok /\ all_movements /\ complete_video

\* verified = rate > 0.5 and all movements and sufficient frames and complete
is_verified(rate_ok, all_movements, sufficient_frames, complete_video) ==
  rate_ok /\ all_movements /\ sufficient_frames /\ complete_video

\* round(confidence, 2) in hundredths: 0.3, 0.4, 0.2 and 0.1 for the four checks
confidence_of(rate_ok, all_movements, sufficient_frames, complete_video) ==
    (IF rate_ok THEN 30 ELSE 0) + (IF all_movements THEN 40 ELSE 0)
  + (IF sufficient_frames THEN 20 ELSE 0) + (IF complete_video THEN 10 ELSE 0)

\* The dict returned when the video is long enough
verdict(rate, all_movements, sufficient_frames, complete_video) ==
  [verified   |-> is_verified(RatLt(Rat(1, 2), rate), all_movements,
                              sufficient_frames, complete_video),
   confidence |-> confidence_of(RatLt(Rat(1, 2), rate), all_movements,
                                sufficient_frames, complete_video),
   reason     |-> get_failure_reason(rate, all_movements, sufficient_frames,
                                     complete_video)]

\* The part of verify_video after the frame loop
analysis(fps, total_frames_in_video, frames, face_frames, detected, held) ==
  LET decide(duration, invalid) ==
        IF is_too_short(invalid, duration, frames)
        THEN [verified |-> FALSE, confidence |-> 0, reason |-> "Video too short"]
        ELSE verdict(face_detection_rate(frames, face_frames),
                     Cardinality(detected) = Len(required_movements),
                     \A i \in 1..Len(required_movements) : held[required_movements[i]] >= 3,
                     RatGe(frames_processed_percentage(invalid, total_frames_in_video, frames),
                           RatInt(90)))
      with(duration) == decide(duration, is_invalid_duration(duration))
  IN  with(video_duration(fps, total_frames_in_video))

FaceIdle ==
  /\ video = None /\ cap = None /\ frame_count = 0 /\ face_detected_frames = 0
  /\ detected_movements = {} /\ movement_frames = << >> /\ result = None

(***************************************************************************)
(* The profile store: fetch_user_profile and fetch_candidate_profiles      *)
(***************************************************************************)
\* INACTIVE_DAYS: a profile whose last_active is older is inactive
INACTIVE_DAYS == 45

\* bool(x) of an Optional list: None and [] are false
TruthyList(x) == x # None /\ x[1] # << >>

fetch_user_profile(user_id) ==
  IF supabase_client = "None" THEN None
  ELSE LET found == SelectSeq(profiles, LAMBDA row : row.id = user_id)
       IN  IF found = << >> THEN None ELSE Some(with_name_and_bio(found[1]))

\* seq[:n]
Slice(seq, n) ==
  IF n >= 0 THEN SubSeq(seq, 1, Min(n, Len(seq)))
  ELSE SubSeq(seq, 1, Max(0, Len(seq) + n))

\* The row passes the filters of the query sent to the store
query_selects(row, user_id, prefs, reqs, candidate_ids) ==
  LET between(range) == row.age # None /\ range[1] <= row.age[1] /\ row.age[1] <= range[2]
  IN  /\ row.id # user_id
      /\ row.deleted_at = None
      /\ TruthyList(candidate_ids) => row.id \in Range(candidate_ids[1])
      /\ (Truthy(reqs) /\ reqs.gender # "") => row.gender = reqs.gender
      /\ (Truthy(reqs) /\ reqs.age_range # None) => between(reqs.age_range[1])
      /\ (prefs # None /\ ~(Truthy(reqs) /\ reqs.age_range # None)
            /\ prefs[1].age_range # << >>) => between(prefs[1].age_range)
      /\ (prefs # None /\ ~(Truthy(reqs) /\ reqs.gender # "")
            /\ prefs[1].gender_preference # "") =>
           row.gender = lower(strip(prefs[1].gender_preference, Whitespace))

\* The filtering loop without the suspension and inactivity tests
loop_keeps_any_status(row, exclude_user_ids) ==
  /\ ~(TruthyList(exclude_user_ids) /\ row.id \in Range(exclude_user_ids[1]))
  /\ row.deleted_at = None

\* The row survives the filtering loop over response.data
loop_keeps(row, exclude_user_ids) ==
  /\ ~(TruthyList(exclude_user_ids) /\ row.id \in Range(exclude_user_ids[1]))
  /\ row.deleted_at = None
  /\ lower(row.is_suspended) # "true"
  /\ ~(row.last_active # None /\ row.last_active[1] > INACTIVE_DAYS)

fetch_candidate_profiles(user_id, prefs, reqs, candidate_ids, exclude_user_ids, limit) ==
  LET selected == SelectSeq(profiles,
                    LAMBDA row : query_selects(row, user_id, prefs, reqs, candidate_ids))
      data     == Slice(selected, Min(limit * 10, 500))
      named(kept) == [i \in 1..Len(kept) |-> with_name_and_bio(kept[i])]
  IN  IF supabase_client = "None" THEN << >>
      ELSE named(SelectSeq(data, LAMBDA row : loop_keeps(row, exclude_user_ids)))

(***************************************************************************)
(* find_matches                                                            *)
(***************************************************************************)
INTERNAL_API_KEY == "Orincore7094"

\* {**candidate, 'match_score': score, 'criteria_coverage': coverage}
scored(cand, match_score, criteria_coverage) ==
  [k \in DOMAIN cand \cup {"match_score", "criteria_coverage"} |->
     IF k = "match_score" THEN match_score
     ELSE IF k = "criteria_coverage" THEN criteria_coverage
     ELSE cand[k]]

\* The hard geo-filter: the candidate is skipped ("skip"), kept ("keep"), or
\* the comparison with a max_distance of None raises ("TypeError").
geo_filter(req, cand) ==
  LET compare(distance, max_dist) ==
        IF max_dist = None THEN "TypeError"
        ELSE IF RatLt(RatInt(max_dist[1]), distance) THEN "skip" ELSE "keep"
  IN  IF /\ TruthyNum(req.latitude) /\ TruthyNum(req.longitude)
         /\ TruthyNum(cand.latitude) /\ TruthyNum(cand.longitude)
      THEN compare(calculate_distance(req.latitude[1], req.longitude[1],
                                      cand.latitude[1], cand.longitude[1]),
                   max_distance_of(req.preferences))
      ELSE "keep"

\* The fallback threshold applied to every candidate
included_by_score(reqs, match_score, criteria_coverage) ==
  RatGe(match_score, RatInt(5))

\* The inclusion decision for a scored candidate
included(reqs, match_score, criteria_coverage) ==
  IF Truthy(reqs)
  THEN RatGe(criteria_coverage, Threshold60) \/ RatGe(match_score, RatInt(10))
  ELSE RatGe(match_score, RatInt(5))

RECURSIVE score_candidates(_, _, _, _)
\* The scoring loop over candidates[i..]: [error |-> "", list |-> the entries
\* appended to scored_candidates], or the exception that ended the loop.
score_candidates(req, reqs, user_profile, cands) ==
  LET append(cand, res, cov, rest) ==
        IF res.error # "" THEN [error |-> res.error, list |-> << >>]
        ELSE IF rest.error # "" THEN rest
        ELSE IF included(reqs, res.value, cov)
             THEN [error |-> "", list |-> <<scored(cand, res.value, cov)>> \o rest.list]
             ELSE rest
      iteration(cand, geo, rest) ==
        IF geo = "TypeError" THEN [error |-> "TypeError", list |-> << >>]
        ELSE IF geo = "skip" THEN rest
        ELSE append(cand,
                    calculate_match_score(user_profile, cand, req.preferences,
                                          req.prompt, reqs),
                    IF Truthy(reqs) THEN compute_criteria_coverage(reqs, cand)
                    ELSE RatInt(0),
                    rest)
  IN  IF cands = << >> THEN [error |-> "", list |-> << >>]
      ELSE iteration(Head(cands), geo_filter(req, Head(cands)),
                     score_candidates(req, reqs, user_profile, Tail(cands)))

\* A sort key of match_score alone
key_greater_by_score(a, b) == RatLt(b.match_score, a.match_score)

\* The sort key (criteria_coverage, match_score) of a is greater than that of b
key_greater(a, b) ==
  \/ RatLt(b.criteria_coverage, a.criteria_coverage)
  \/ /\ a.criteria_coverage = b.criteria_coverage
     /\ RatLt(b.match_score, a.match_score)

RECURSIVE sort_descending_ties_reversed(_)
\* A descending sort that is not stable: entries with equal keys end up in the
\* reverse of their order
sort_descending_ties_reversed(seq) ==
  LET insert(front, x) ==
           SelectSeq(front, LAMBDA y : key_greater(y, x))
        \o <<x>>
        \o SelectSeq(front, LAMBDA y : ~key_greater(y, x))
  IN  IF seq = << >> THEN << >>
      ELSE insert(sort_descending_ties_reversed(SubSeq(seq, 1, Len(seq) - 1)), seq[Len(seq)])

RECURSIVE sort_descending(_)
\* list.sort(key=..., reverse=True): descending by key; the sort is stable, so
\* entries with equal keys keep their order.
sort_descending(seq) ==
  LET insert(front, x) ==
           SelectSeq(front, LAMBDA y : ~key_greater(x, y))
        \o <<x>>
        \o SelectSeq(front, LAMBDA y : key_greater(x, y))
  IN  IF seq = << >> THEN << >>
      ELSE insert(sort_descending(SubSeq(seq, 1, Len(seq) - 1)), seq[Len(seq)])

\* The handler without the strong-coverage filter
prefer_strong_keeps_all(reqs, scored_candidates) == scored_candidates

\* strong = [c for c in scored_candidates if coverage >= 0.60]; kept if non-empty
prefer_strong(reqs, scored_candidates) ==
  LET strong == SelectSeq(scored_candidates,
                          LAMBDA c : RatGe(c.criteria_coverage, Threshold60))
  IN  IF Truthy(reqs) /\ strong # << >> THEN strong ELSE scored_candidates

\* The truncation without the single-best-match mode
truncate_by_limit(req, scored_candidates) == Slice(scored_candidates, req.limit)

\* top_matches: the single best match, or scored_candidates[:limit]
truncate(req, scored_candidates) ==
  IF req.single_best_match /\ scored_candidates # << >>
  THEN Slice(scored_candidates, 1)
  ELSE Slice(scored_candidates, req.limit)

\* round(x, 2): to the nearest hundredth, a tie to the even one
round2(x) ==
  LET nearest(q, r2) == IF r2 > x.d \/ (r2 = x.d /\ q % 2 = 1) THEN q + 1 ELSE q
  IN  Rat(nearest((x.n * 100) \div x.d, 2 * ((x.n * 100) % x.d)), 100)

\* UserProfile(id=m['id'], ..., match_score=round(m['match_score'], 2))
to_user_profile(m) ==
  [id |-> m.id, name |-> m.name, age |-> m.age, bio |-> m.bio,
   interests |-> m.interests, needs |-> m.needs, latitude |-> m.latitude,
   longitude |-> m.longitude, gender |-> m.gender,
   match_score |-> round2(m.match_score)]

\* An HTTPException leaving the endpoint
HttpError(status, detail) ==
  [status |-> status, detail |-> detail, matches |-> << >>, total_candidates |-> 0,
   ranked |-> << >>, scored_candidates |-> << >>, top_matches |-> << >>]

\* MatchResponse(success=True, ...), with three of the handler's lists at its
\* end: ranked is scored_candidates after the sort, scored_candidates is the
\* list after the strong-coverage filter, top_matches the truncated list;
\* processing_time_ms is left out.
MatchResponse(total_candidates, ranked, scored_candidates, top_matches) ==
  [status |-> 200, detail |-> "",
   matches |-> [i \in 1..Len(top_matches) |-> to_user_profile(top_matches[i])],
   total_candidates |-> total_candidates, ranked |-> ranked,
   scored_candidates |-> scored_candidates, top_matches |-> top_matches]

find_matches(req) ==
  LET respond(cands, ranked, scored_candidates) ==
        MatchResponse(Len(cands), ranked, scored_candidates,
                      truncate(req, scored_candidates))
      filter(reqs, cands, ranked) ==
        respond(cands, ranked, prefer_strong(reqs, ranked))
      rank(reqs, cands, loop) ==
        IF loop.error # "" THEN HttpError(500, "Internal server error")
        ELSE filter(reqs, cands, sort_descending(loop.list))
      score_all(reqs, user_profile, cands) ==
        IF cands = << >> THEN MatchResponse(0, << >>, << >>, << >>)
        ELSE rank(reqs, cands, score_candidates(req, reqs, user_profile, cands))
      fetch(reqs, user_profile) ==
        IF user_profile = None THEN HttpError(404, "User profile not found")
        ELSE score_all(reqs, user_profile[1],
                       fetch_candidate_profiles(req.user_id, req.preferences, reqs,
                                                req.candidate_ids, req.exclude_user_ids,
                                                Max(req.limit * 20, 100)))
  IN  IF req.x_api_key # INTERNAL_API_KEY THEN HttpError(401, "Invalid API key")
      ELSE fetch(IF req.prompt # "" THEN parse_prompt_requirements(req.prompt)
                 ELSE EmptyRequirements,
                 fetch_user_profile(req.user_id))

(***************************************************************************)
(* The engine: parse the prompt, then score the candidate and compute its  *)
(* coverage.  The functions are applied directly to inputs drawn by        *)
(* InitEngine (candidate # None), with the application not serving.        *)
(***************************************************************************)
InitEngine ==
  /\ prompt \in EnginePrompts
  /\ user \in EngineUsers
  /\ candidate \in EngineCandidates
  /\ preferences \in EnginePreferences
  /\ prompt_requirements = None
  /\ score = None
  /\ coverage = None
  /\ lifecycle = "stopped"
  /\ supabase_client = "None"
  /\ profiles = << >>
  /\ request = None
  /\ response = None
  /\ FaceIdle

ParsePromptRequirements ==
  /\ candidate # None
  /\ prompt_requirements = None
  /\ prompt_requirements' = Some(parse_prompt_requirements(prompt))
  /\ UNCHANGED <<prompt, user, candidate, preferences, score, coverage, service_vars, face_vars>>

CalculateMatchScore ==
  /\ candidate # None
  /\ prompt_requirements # None
  /\ score = None
  /\ score' = Some(calculate_match_score(user, candidate, preferences, prompt,
                                         prompt_requirements[1]))
  /\ UNCHANGED <<prompt, user, candidate, preferences, prompt_requirements, coverage, service_vars, face_vars>>

ComputeCriteriaCoverage ==
  /\ candidate # None
  /\ prompt_requirements # None
  /\ coverage = None
  /\ coverage' = Some(compute_criteria_coverage(prompt_requirements[1], candidate))
  /\ UNCHANGED <<prompt, user, candidate, preferences, prompt_requirements, score, service_vars, face_vars>>

NextEngine ==
  \/ ParsePromptRequirements
  \/ CalculateMatchScore
  \/ ComputeCriteriaCoverage

SpecEngine == InitEngine /\ [][NextEngine]_vars

(***************************************************************************)
(* The service: the lifespan of the application and the match endpoint.    *)
(* A request is received, handled by find_matches in one step, and its     *)
(* response sent.                                                          *)
(***************************************************************************)
\* Largest number of candidate rows in the profiles table
MaxPool == 2

\* Largest small value of the request's limit
MaxLimit == 2

CandidateRows == {RowA, RowB, RowC, RowD, RowF, RowG}

\* The sequences without repetition of at most n elements of S
RECURSIVE Arrangements(_, _)
Arrangements(S, n) ==
  LET extend(shorter) ==
        shorter \cup {Append(p[1], p[2]) :
                        p \in {q \in shorter \X S : q[2] \notin Range(q[1])}}
  IN  IF n = 0 THEN {<< >>} ELSE extend(Arrangements(S, n - 1))

\* Rows that differ in account status only
StatusRows == {RowDeleted, RowSuspended, RowInactive, RowRecent}

\* Rows whose scores lie on either side of the inclusion thresholds
ThresholdRows == {RowB, RowH}

Tables ==
  {<<RowU1>> \o pool : pool \in Arrangements(CandidateRows, MaxPool)
                               \cup Arrangements(StatusRows, MaxPool)
                               \cup Arrangements(ThresholdRows, MaxPool)}

MatchRequest(x_api_key, user_id, p, prefs, latitude, longitude, limit, single_best_match, candidate_ids, exclude_user_ids) ==
  [x_api_key |-> x_api_key, user_id |-> user_id, prompt |-> p, preferences |-> prefs,
   latitude |-> latitude, longitude |-> longitude, limit |-> limit,
   single_best_match |-> single_best_match, candidate_ids |-> candidate_ids,
   exclude_user_ids |-> exclude_user_ids]

ServicePrompts == {"", "who", "music", "need", "she loves hiking", ExamplePrompt, RankingPrompt}

Limits == (0 - 1)..MaxLimit \cup {10}

Requests ==
       {MatchRequest(INTERNAL_API_KEY, "u1", p, None, None, None, 10, single, None, None) :
          p \in ServicePrompts, single \in BOOLEAN}
  \cup {MatchRequest(INTERNAL_API_KEY, "u1", p, None, None, None, limit, single, None, None) :
          p \in {"", RankingPrompt}, limit \in Limits, single \in BOOLEAN}
  \cup {MatchRequest(INTERNAL_API_KEY, "u1", p, prefs, c[1], c[2], 10, FALSE, None, None) :
          p \in {"", "music"},
          prefs \in {None, Preferences(Some(200)), Preferences(Some(0))},
          c \in {<<Some(1), Some(1)>>, <<Some(0), Some(0)>>}}
  \cup {MatchRequest(INTERNAL_API_KEY, "u1", p, None, None, None, 10, FALSE, ids, excl) :
          p \in {"", "music"},
          ids \in {Some(<< >>), Some(<<"a", "b">>)},
          excl \in {None, Some(<<"b">>)}}
  \cup {MatchRequest("guess", "u1", "", None, None, None, 10, FALSE, None, None),
        MatchRequest(INTERNAL_API_KEY, "ghost", "", None, None, None, 10, FALSE, None, None)}

EngineIdle ==
  /\ prompt = "" /\ user = None /\ candidate = None /\ preferences = None
  /\ prompt_requirements = None /\ score = None /\ coverage = None

Init ==
  /\ EngineIdle
  /\ lifecycle = "loaded"
  /\ supabase_client = "None"
  /\ profiles \in Tables
  /\ request = None
  /\ response = None
  /\ FaceIdle

\* lifespan, startup: create_client succeeds, or fails and is only logged
Startup ==
  /\ lifecycle = "loaded"
  /\ lifecycle' = "running"
  /\ supabase_client' \in {"client", "None"}
  /\ UNCHANGED <<engine_vars, face_vars, profiles, request, response>>

\* lifespan, shutdown
Shutdown ==
  /\ lifecycle = "running"
  /\ request = None
  /\ lifecycle' = "stopped"
  /\ supabase_client' = "None"
  /\ UNCHANGED <<engine_vars, face_vars, profiles, request, response>>

\* A POST /api/ml/match arrives
Receive ==
  /\ lifecycle = "running"
  /\ request = None
  /\ \E req \in Requests : request' = Some(req)
  /\ UNCHANGED <<engine_vars, face_vars, lifecycle, supabase_client, profiles, response>>

\* verify_api_key and find_matches handle the request
FindMatches ==
  /\ request # None
  /\ response = None
  /\ response' = Some(find_matches(request[1]))
  /\ UNCHANGED <<engine_vars, face_vars, lifecycle, supabase_client, profiles, request>>

\* The response is sent
Reply ==
  /\ response # None
  /\ request' = None
  /\ response' = None
  /\ UNCHANGED <<engine_vars, face_vars, lifecycle, supabase_client, profiles>>

Next ==
  \/ Startup
  \/ Shutdown
  \/ Receive
  \/ FindMatches
  \/ Reply

Spec == Init /\ [][Next]_vars

\* The engine's functions applied directly and the service, side by side
InitAll == InitEngine \/ Init

NextAll == NextEngine \/ Next

SpecAll == InitAll /\ [][NextAll]_vars

(***************************************************************************)
(* The face verifier applied to one video, with the matching service not   *)
(* serving.                                                                *)
(***************************************************************************)
\* The runs of a video: frames without a face, frames facing the camera, and
\* the four movements
Frames(none, center, left, right, up, down) ==
  SelectSeq(<<[movement |-> "none", frames |-> none],
              [movement |-> "center", frames |-> center],
              [movement |-> "left", frames |-> left],
              [movement |-> "right", frames |-> right],
              [movement |-> "up", frames |-> up],
              [movement |-> "down", frames |-> down]>>,
            LAMBDA run : run.frames > 0)

RECURSIVE FramesIn(_)
\* The number of frames of a sequence of runs
FramesIn(runs) == IF runs = << >> THEN 0 ELSE runs[1].frames + FramesIn(Tail(runs))

\* Lengths of the runs: none, 2 (too few to count as held) or 3 frames of a
\* movement; 138 or 150 frames facing the camera; 150 frames without a face
MovementRuns == {0, 2, 3}

FrameSequences ==
  {Frames(none, center, left, right, up, down) :
     none \in {0, 150}, center \in {0, 138, 150},
     left \in MovementRuns, right \in MovementRuns, up \in {0, 3}, down \in MovementRuns}

\* What the container reports as frame count: nothing (0, as mobile browsers
\* write it), the number of frames, or twice the number of frames
ReportedFrames(frames) == {0, FramesIn(frames), 2 * FramesIn(frames)}

\* The videos that open, with the frame rate reported as 0 or 30
OpenedVideos(frames) ==
  {[opened |-> TRUE, fps |-> fps, total_frames_in_video |-> total, frames |-> frames] :
     fps \in {0, 30}, total \in ReportedFrames(frames)}

Videos ==
  UNION {OpenedVideos(frames) : frames \in FrameSequences}
  \cup {[opened |-> FALSE, fps |-> 0, total_frames_in_video |-> 0, frames |-> << >>]}

InitFace ==
  /\ EngineIdle
  /\ lifecycle = "stopped"
  /\ supabase_client = "None"
  /\ profiles = << >>
  /\ request = None
  /\ response = None
  /\ video \in {Some(v) : v \in Videos}
  /\ cap = None
  /\ frame_count = 0
  /\ face_detected_frames = 0
  /\ detected_movements = {}
  /\ movement_frames = << >>
  /\ result = None

\* cap = cv2.VideoCapture(video_path), and the early return when it is not opened
OpenVideo ==
  /\ video # None /\ cap = None /\ result = None
  /\ IF video[1].opened
     THEN /\ cap' = Some(video[1].frames)
          /\ movement_frames' = [m \in Range(required_movements) |-> 0]
          /\ result' = None
     ELSE /\ result' = Some([verified |-> FALSE, confidence |-> 0,
                             reason |-> "Could not open video file"])
          /\ UNCHANGED <<cap, movement_frames>>
  /\ UNCHANGED <<engine_vars, service_vars, video, frame_count, face_detected_frames, detected_movements>>

\* The frame loop, over the next run of frames with the same outcome
ReadFrames ==
  /\ cap # None /\ cap[1] # << >> /\ result = None
  /\ cap' = Some(Tail(cap[1]))
  /\ frame_count' = frame_count + cap[1][1].frames
  /\ face_detected_frames' =
       face_detected_frames + (IF cap[1][1].movement = "none" THEN 0 ELSE cap[1][1].frames)
  /\ IF cap[1][1].movement \in Range(required_movements)
     THEN /\ detected_movements' = detected_movements \cup {cap[1][1].movement}
          /\ movement_frames' =
               [movement_frames EXCEPT ![cap[1][1].movement] = @ + cap[1][1].frames]
     ELSE UNCHANGED <<detected_movements, movement_frames>>
  /\ UNCHANGED <<engine_vars, service_vars, video, result>>

\* cap.read() returns no frame: the loop ends and the result is computed
Analyze ==
  /\ cap # None /\ cap[1] = << >> /\ result = None
  /\ result' = Some(analysis(video[1].fps, video[1].total_frames_in_video, frame_count,
                             face_detected_frames, detected_movements, movement_frames))
  /\ UNCHANGED <<engine_vars, service_vars, video, cap, frame_count, face_detected_frames, detected_movements, movement_frames>>

NextFace ==
  \/ OpenVideo
  \/ ReadFrames
  \/ Analyze

SpecFace == InitFace /\ [][NextFace]_vars

(***************************************************************************)
(* Properties of the engine (checked under SpecEngine)                     *)
(***************************************************************************)

\* match_score in [0,100]
ScoreInRange(x) == RatLe(RatInt(0), x) /\ RatLe(x, RatInt(100))

\* criteria_coverage in [0,1]
CoverageInRange(x) == RatLe(RatInt(0), x) /\ RatLe(x, RatInt(1))

\* C1: every value calculate_match_score returns lies in [0,100], every value
\* compute_criteria_coverage returns lies in [0,1], and every scored candidate
\* find_matches collected satisfies both bounds.
C1_ScoreAndCoverageInRange ==
  /\ (score # None /\ score[1].error = "") => ScoreInRange(score[1].value)
  /\ coverage # None => CoverageInRange(coverage[1])
  /\ response # None =>
       \A i \in 1..Len(response[1].ranked) :
         /\ ScoreInRange(response[1].ranked[i].match_score)
         /\ CoverageInRange(response[1].ranked[i].criteria_coverage)

\* A score that reached the upper bound next to a full coverage.
C1_Witness ==
  /\ score # None /\ score[1].error = "" /\ score[1].value = RatInt(100)
  /\ coverage = Some(RatInt(1))

\* max_distance is usable as a divisor: no preferences (50) or a positive value
UsableMaxDistance ==
  LET m == max_distance_of(preferences) IN m # None /\ m[1] > 0

\* C2: calculate_match_score has no error path: for every requester, candidate
\* and requirement set produced by parse_prompt_requirements it returns a score.
C2_NoErrorPath ==
  (score # None /\ UsableMaxDistance) => score[1].error = ""

\* The pairs <<requirement set, candidate>> C8 compares with the current one:
\* the requirement set extended by one hard constraint the candidate satisfies.
KeywordVocabulary == {"coding", "music", "hiking", "mentorship"}

ExtendedBySatisfied(req, cand) ==
  LET g == lower(strip(cand.gender, Whitespace))
  IN    {[req EXCEPT !.gender = g] : x \in {y \in {1} : req.gender = "" /\ g \in {"male", "female"}}}
   \cup {[req EXCEPT !.age_range = Some(r)] :
           r \in {q \in (IF cand.age = None THEN {}
                         ELSE {cand.age[1] - 3, cand.age[1]} \X {cand.age[1], cand.age[1] + 3}) :
                    req.age_range = None}}
   \cup {[req EXCEPT !.keywords = <<k>>] :
           k \in {w \in KeywordVocabulary :
                    /\ expand_prompt_keywords(req) = << >>
                    /\ RatGe(calculate_keyword_match(<<w>>, cand), Threshold60)}}

\* The requirement set with one hard constraint the candidate satisfies removed.
ReducedBySatisfied(req, cand) ==
  LET g == lower(strip(cand.gender, Whitespace))
      kws == expand_prompt_keywords(req)
  IN    {[req EXCEPT !.gender = ""] : x \in {y \in {1} : req.gender # "" /\ g = req.gender}}
   \cup {[req EXCEPT !.age_range = None] :
           x \in {y \in {1} : /\ req.age_range # None /\ cand.age # None
                              /\ req.age_range[1][1] <= cand.age[1]
                              /\ cand.age[1] <= req.age_range[1][2]}}
   \cup {[req EXCEPT !.keywords = << >>, !.purposes = << >>, !.purpose_focused = FALSE,
                     !.relationship_type = "", !.intent_weight = ""] :
           x \in {y \in {1} : /\ kws # << >>
                              /\ RatGe(calculate_keyword_match(kws, cand), Threshold60)}}

\* C8: for a fixed candidate, adding a hard constraint the candidate satisfies
\* never lowers the coverage and removing one it satisfies never raises it.
C8_CoverageMonotone ==
  coverage # None =>
    /\ \A ext \in ExtendedBySatisfied(prompt_requirements[1], candidate) :
         RatGe(compute_criteria_coverage(ext, candidate), coverage[1])
    /\ \A red \in ReducedBySatisfied(prompt_requirements[1], candidate) :
         RatLe(compute_criteria_coverage(red, candidate), coverage[1])

\* A candidate that satisfies one of two constraints, to which a third can be
\* added and from which the satisfied one can be removed.
C8_Witness ==
  /\ coverage = Some(Rat(1, 2))
  /\ ExtendedBySatisfied(prompt_requirements[1], candidate) # {}
  /\ ReducedBySatisfied(prompt_requirements[1], candidate) # {}

\* C10 as stated: the example prompt yields gender female, age range [20,26]
\* and a keyword list that contains both 'coding' and 'help'.
C10_ExampleAsStated ==
  (prompt = ExamplePrompt /\ prompt_requirements # None) =>
    /\ prompt_requirements[1].gender = "female"
    /\ prompt_requirements[1].age_range = Some(<<20, 26>>)
    /\ {"coding", "help"} \subseteq Range(prompt_requirements[1].keywords)

\* C10 amended: the example prompt yields gender female, age range [20,26] and
\* a keyword list that contains 'coding' but not the stop word 'help'.
C10_ExampleParsed ==
  (prompt = ExamplePrompt /\ prompt_requirements # None) =>
    /\ prompt_requirements[1].gender = "female"
    /\ prompt_requirements[1].age_range = Some(<<20, 26>>)
    /\ "coding" \in Range(prompt_requirements[1].keywords)
    /\ "help" \notin Range(prompt_requirements[1].keywords)

C10_Witness ==
  /\ prompt = ExamplePrompt
  /\ prompt_requirements # None
  /\ prompt_requirements[1].keywords = <<"female", "coding">>

(***************************************************************************)
(* Properties of the service (checked under Spec)                          *)
(***************************************************************************)
\* The request was handled and passed verify_api_key
Authenticated == response # None /\ request[1].x_api_key = INTERNAL_API_KEY

\* find_matches returned a MatchResponse
Succeeded == response # None /\ response[1].status = 200

\* The requirement set find_matches extracted from the request's prompt
Extracted == parse_prompt_requirements(request[1].prompt)

\* C3: every authenticated request ends in a success response or in the 404
\* 'User profile not found'; none ends in an internal error (500).
C3_SuccessOrNotFound ==
  Authenticated =>
    \/ response[1].status = 200
    \/ response[1].status = 404 /\ fetch_user_profile(request[1].user_id) = None

\* The pair a, b of consecutive results is in (coverage desc, score desc) order
InOrder(a, b) ==
  \/ RatLt(b.criteria_coverage, a.criteria_coverage)
  \/ /\ a.criteria_coverage = b.criteria_coverage
     /\ RatGe(a.match_score, b.match_score)

\* C4: the list find_matches returns is sorted by criteria_coverage descending,
\* then match_score descending: every pair of consecutive results is in order,
\* and the returned profiles are these results, position by position.
C4_SortedByCoverageThenScore ==
  Succeeded =>
    /\ \A i \in 1..(Len(response[1].top_matches) - 1) :
         InOrder(response[1].top_matches[i], response[1].top_matches[i + 1])
    /\ Len(response[1].matches) = Len(response[1].top_matches)
    /\ \A i \in 1..Len(response[1].matches) :
         response[1].matches[i].id = response[1].top_matches[i].id

\* The position of the profile with this id in the profiles table
PositionOf(id) == CHOOSE i \in 1..Len(profiles) : profiles[i].id = id

\* Two results where the first has the higher coverage and the lower score and
\* was fetched after the second: the sort moved it to the front.
C4_Witness ==
  /\ Succeeded
  /\ Len(response[1].matches) >= 2
  /\ RatLt(response[1].top_matches[2].criteria_coverage,
           response[1].top_matches[1].criteria_coverage)
  /\ RatLt(response[1].top_matches[1].match_score,
           response[1].top_matches[2].match_score)
  /\ PositionOf(response[1].matches[1].id) > PositionOf(response[1].matches[2].id)

\* C5: with an extracted requirement set, if an included candidate has
\* criteria_coverage >= 0.60 then no candidate with criteria_coverage < 0.60
\* is in the final result.
C5_StrongCoveragePreferred ==
  (/\ Succeeded
   /\ Truthy(Extracted)
   /\ \E i \in 1..Len(response[1].ranked) :
        RatGe(response[1].ranked[i].criteria_coverage, Threshold60)) =>
    \A i \in 1..Len(response[1].top_matches) :
      RatGe(response[1].top_matches[i].criteria_coverage, Threshold60)

\* A strong and a weak candidate were included, the weak one was dropped, and
\* the result is shorter than the requested limit.
C5_Witness ==
  /\ Succeeded
  /\ Truthy(Extracted)
  /\ \E i, j \in 1..Len(response[1].ranked) :
       /\ RatGe(response[1].ranked[i].criteria_coverage, Threshold60)
       /\ RatLt(response[1].ranked[j].criteria_coverage, Threshold60)
  /\ response[1].matches # << >>
  /\ Len(response[1].matches) < request[1].limit

\* C6: with single_best_match, find_matches returns at most one match, none
\* only when no candidate was included, and the match is the maximum of the
\* included candidates under the (coverage, score) order, whatever the limit.
C6_SingleBestMatch ==
  (Succeeded /\ request[1].single_best_match) =>
    /\ Len(response[1].matches) <= 1
    /\ response[1].matches = << >> <=> response[1].ranked = << >>
    /\ response[1].matches # << >> =>
         /\ response[1].matches[1].id = response[1].top_matches[1].id
         /\ \E i \in 1..Len(response[1].ranked) :
              response[1].ranked[i] = response[1].top_matches[1]
         /\ \A i \in 1..Len(response[1].ranked) :
              ~key_greater(response[1].ranked[i], response[1].top_matches[1])

\* One match returned out of several included candidates with a limit of 0.
C6_Witness ==
  /\ Succeeded
  /\ request[1].single_best_match
  /\ request[1].limit = 0
  /\ Len(response[1].ranked) >= 2
  /\ Len(response[1].matches) = 1

\* C7: without single_best_match, for every limit the request model accepts
\* the number of returned matches is at most limit and the matches are the
\* first entries of the ranked list.
C7_AtMostLimit ==
  (Succeeded /\ ~request[1].single_best_match) =>
    /\ Len(response[1].matches) <= request[1].limit
    /\ Len(response[1].top_matches) <= Len(response[1].scored_candidates)
    /\ response[1].top_matches =
         SubSeq(response[1].scored_candidates, 1, Len(response[1].top_matches))

\* C11: for the requirement set of the example prompt, the candidate with
\* gender female, age 23 and interests [coding, hiking] scores 1.0 for the
\* keyword 'coding' and has a criteria_coverage of 1.0.
C11_ExampleCandidateFullCoverage ==
  (/\ prompt = ExamplePrompt
   /\ candidate = with_name_and_bio(RowA)
   /\ coverage # None) =>
    /\ keyword_score("coding", join(LowerAll(candidate.interests)),
                     join(LowerAll(candidate.needs)), lower(candidate.bio)) = 10
    /\ coverage[1] = RatInt(1)

\* The candidates find_matches fetched for the request being handled
Pool ==
  fetch_candidate_profiles(request[1].user_id, request[1].preferences, Extracted,
                           request[1].candidate_ids, request[1].exclude_user_ids,
                           Max(request[1].limit * 20, 100))

\* The profile with this id is in the list of scored candidates
Ranked(id) == \E j \in 1..Len(response[1].ranked) : response[1].ranked[j].id = id

\* The score of the fetched candidate for the request being handled
ScoreOf(cand) ==
  calculate_match_score(fetch_user_profile(request[1].user_id)[1], cand,
                        request[1].preferences, request[1].prompt, Extracted)

\* C12: with an empty prompt and no preference object every candidate of the
\* pool has coverage 0.0 and is in the ranked list iff its score is >= 5.0.
C12_FallbackThresholdOnly ==
  (Succeeded /\ request[1].prompt = "" /\ request[1].preferences = None) =>
    /\ \A j \in 1..Len(response[1].ranked) :
         response[1].ranked[j].criteria_coverage = RatInt(0)
    /\ \A i \in 1..Len(Pool) :
         Ranked(Pool[i].id) <=> RatGe(ScoreOf(Pool[i]).value, RatInt(5))

\* The prompts whose only age phrase is "between N and M", with <<N, M>>
BetweenCases ==
  {[p |-> BetweenPrompt, range |-> <<20, 25>>],
   [p |-> WideBetweenPrompt, range |-> <<5, 130>>]}

\* C13: a prompt whose only age phrase is "between N and M" yields
\* age_range = [N, M] exactly, with no tolerance added and no clamping.
C13_BetweenExact ==
  prompt_requirements # None =>
    \A c \in BetweenCases :
      prompt = c.p => prompt_requirements[1].age_range = Some(c.range)

\* The explicit range [5, 130], outside [18, 100], was extracted as written.
C13_Witness ==
  /\ prompt = WideBetweenPrompt
  /\ prompt_requirements # None
  /\ prompt_requirements[1].age_range = Some(<<5, 130>>)

\* The row must not reach the scoring loop of the request being handled: it is
\* the requester's own, listed in exclude_user_ids, soft-deleted, suspended, or
\* last active before the INACTIVE_DAYS window.
Barred(row) ==
  \/ row.id = request[1].user_id
  \/ /\ request[1].exclude_user_ids # None
     /\ row.id \in Range(request[1].exclude_user_ids[1])
  \/ row.deleted_at # None
  \/ lower(row.is_suspended) = "true"
  \/ row.last_active # None /\ row.last_active[1] > INACTIVE_DAYS

C15_MatchesWithinAllowList ==
  (Succeeded /\ request[1].candidate_ids # None) =>
    \A j \in 1..Len(response[1].matches) :
      response[1].matches[j].id \in Range(request[1].candidate_ids[1])

\* C16: the weight profile of calculate_match_score is chosen by the expanded
\* keyword list: non-empty selects the keyword profile (prompt_keywords 50 with
\* prefer_nearby, 55 without), which defines a prompt_keywords weight; empty
\* selects the standard profile.
C16_ProfileByExpandedKeywords ==
  (prompt_requirements # None /\ score # None) =>
    IF expand_prompt_keywords(prompt_requirements[1]) # << >>
    THEN /\ "prompt_keywords" \in DOMAIN select_weights(prompt_requirements[1])
         /\ select_weights(prompt_requirements[1]) =
              (IF prompt_requirements[1].prefer_nearby
               THEN nearby_keyword_weights ELSE keyword_weights)
    ELSE select_weights(prompt_requirements[1]) = standard_weights

\* The score of one keyword as the first tier whose condition holds, in tenths
first_tier(keyword, interests_text, needs_text, bio_text) ==
  LET syn_in(text) == keyword \in synonym_keys /\ AnyIn(synonyms[keyword], text)
  IN  IF Contains(keyword, interests_text) THEN 10
      ELSE IF syn_in(interests_text) THEN 9
      ELSE IF Contains(keyword, needs_text) THEN 8
      ELSE IF syn_in(needs_text) THEN 7
      ELSE IF Contains(keyword, bio_text) THEN 6
      ELSE IF syn_in(bio_text) THEN 5
      ELSE IF \E word \in Range(split(interests_text \o " " \o needs_text \o " " \o bio_text)) :
                Contains(keyword, word)
           THEN 3
      ELSE 0

\* C18: in calculate_keyword_match every keyword scores the value of the first
\* tier whose condition holds (1.0, 0.9, 0.8, 0.7, 0.6, 0.5, 0.3), and 0 only
\* when none holds, also for keywords that are keys of the synonym table.
C18_FirstMatchingTier ==
  (prompt_requirements # None /\ score # None) =>
    \A k \in Range(expand_prompt_keywords(prompt_requirements[1])) :
      keyword_score(k, join(LowerAll(candidate.interests)),
                    join(LowerAll(candidate.needs)), lower(candidate.bio))
        = first_tier(k, join(LowerAll(candidate.interests)),
                     join(LowerAll(candidate.needs)), lower(candidate.bio))

\* The sum of the weights of a profile, in hundredths
RECURSIVE WeightSum(_, _)
WeightSum(weights, factors) ==
  IF factors = {} THEN 0
  ELSE LET k == CHOOSE f \in factors : TRUE
       IN  weights[k] + WeightSum(weights, factors \ {k})

\* C17: the weight profile calculate_match_score selects maps six factors to
\* weights between 0 and 1 (0 and 100 hundredths) that sum to exactly 1 (100),
\* and the profile used for the score is one of the three tables, unmodified.
C17_WeightsSumToOne ==
  (prompt_requirements # None /\ score # None) =>
    /\ select_weights(prompt_requirements[1])
         \in {nearby_keyword_weights, keyword_weights, standard_weights}
    /\ \A weights \in {select_weights(prompt_requirements[1])} :
         /\ Cardinality(DOMAIN weights) = 6
         /\ \A k \in DOMAIN weights : weights[k] \in 0..100
         /\ WeightSum(weights, DOMAIN weights) = 100

\* A candidate was scored with the keyword profile (prompt_keywords 0.55)
C17_Witness ==
  /\ prompt_requirements # None /\ score # None
  /\ score[1].error = ""
  /\ select_weights(prompt_requirements[1]) = keyword_weights
  /\ RatGe(score[1].value, RatInt(55))

\* satisfied / total over the constraints present in the requirement set:
\* gender, age range, non-empty expanded keyword list
SatisfiedOverTotal(reqs, cand) ==
  LET count(b) == IF b THEN 1 ELSE 0
      has_gender == reqs.gender # ""
      has_age == reqs.age_range # None
      has_keywords == expand_prompt_keywords(reqs) # << >>
      gender_ok == has_gender /\ lower(cand.gender) = reqs.gender
      age_ok == /\ has_age /\ cand.age # None
                /\ reqs.age_range[1][1] <= cand.age[1]
                /\ cand.age[1] <= reqs.age_range[1][2]
      keywords_ok ==
        /\ has_keywords
        /\ RatGe(calculate_keyword_match(expand_prompt_keywords(reqs), cand), Rat(60, 100))
      fraction(satisfied, total) ==
        IF total = 0 THEN RatInt(0) ELSE Rat(satisfied, total)
  IN  fraction(count(gender_ok) + count(age_ok) + count(keywords_ok),
               count(has_gender) + count(has_age) + count(has_keywords))

\* C19: compute_criteria_coverage is satisfied / total over the constraints
\* present (gender, age range, non-empty expanded keyword list), 0 when none
\* is present, and so always one of 0, 1/3, 1/2, 2/3, 1.
C19_CoverageIsSatisfiedOverTotal ==
  (prompt_requirements # None /\ coverage # None) =>
    /\ coverage[1] = SatisfiedOverTotal(prompt_requirements[1], candidate)
    /\ coverage[1] \in {RatInt(0), Rat(1, 3), Rat(1, 2), Rat(2, 3), RatInt(1)}

\* Three constraints are present and the candidate satisfies one of them: it
\* has the required gender, an age outside the range, and too weak a keyword
\* match.
C19_Witness ==
  /\ prompt = ExamplePrompt
  /\ prompt_requirements # None /\ coverage # None
  /\ candidate.gender = "female"
  /\ candidate.age # None /\ candidate.age[1] > prompt_requirements[1].age_range[1][2]
  /\ coverage[1] = Rat(1, 3)

\* The coverage find_matches computes for a candidate of the request handled
CoverageOf(cand) ==
  IF Truthy(Extracted) THEN compute_criteria_coverage(Extracted, cand) ELSE RatInt(0)

\* The candidate is collected by the scoring loop of the request handled
Collected(cand) ==
  \E j \in 1..Len(response[1].ranked) :
    /\ response[1].ranked[j].id = cand.id
    /\ response[1].ranked[j].match_score = ScoreOf(cand).value
    /\ response[1].ranked[j].criteria_coverage = CoverageOf(cand)

\* C20: a candidate that passed the geo-filter is collected iff, with an
\* extracted requirement set, its coverage is >= 0.60 or its score >= 10.0, and
\* without one iff its score is >= 5.0; a collected candidate carries the score
\* and the coverage computed for it.
C20_InclusionPolicy ==
  Succeeded =>
    \A i \in 1..Len(Pool) :
      geo_filter(request[1], Pool[i]) = "keep" =>
        /\ Ranked(Pool[i].id) <=>
             IF Truthy(Extracted)
             THEN \/ RatGe(CoverageOf(Pool[i]), Rat(60, 100))
                  \/ RatGe(ScoreOf(Pool[i]).value, RatInt(10))
             ELSE RatGe(ScoreOf(Pool[i]).value, RatInt(5))
        /\ Ranked(Pool[i].id) => Collected(Pool[i])

\* With an extracted requirement set, one candidate was collected and another,
\* with a score of at least 5 and below 10 and too low a coverage, was not.
C20_Witness ==
  /\ Succeeded
  /\ Truthy(Extracted)
  /\ \E i \in 1..Len(Pool) : Collected(Pool[i])
  /\ \E i \in 1..Len(Pool) :
       /\ geo_filter(request[1], Pool[i]) = "keep"
       /\ ~Ranked(Pool[i].id)
       /\ RatGe(ScoreOf(Pool[i]).value, RatInt(5))

\* The request and the candidate both carry coordinates, of any value
BothLocated(cand) ==
  /\ request[1].latitude # None /\ request[1].longitude # None
  /\ cand.latitude # None /\ cand.longitude # None

\* The candidate is farther from the request's coordinates than the
\* max_distance that applies to the request
BeyondMaxDistance(cand) ==
  /\ max_distance_of(request[1].preferences) # None
  /\ RatLt(RatInt(max_distance_of(request[1].preferences)[1]),
           calculate_distance(request[1].latitude[1], request[1].longitude[1],
                              cand.latitude[1], cand.longitude[1]))

\* C21: the hard geo-filter: when the request has coordinates (of any value,
\* 0 included), the candidate has coordinates and a max_distance applies, a
\* candidate beyond max_distance is excluded and never appears in the result;
\* a candidate without coordinates is never excluded by the filter.
C21_HardGeoFilter ==
  Succeeded =>
    \A i \in 1..Len(Pool) :
      /\ (BothLocated(Pool[i]) /\ BeyondMaxDistance(Pool[i])) =>
           /\ ~Ranked(Pool[i].id)
           /\ \A j \in 1..Len(response[1].matches) :
                response[1].matches[j].id # Pool[i].id
      /\ (Pool[i].latitude = None \/ Pool[i].longitude = None) =>
           geo_filter(request[1], Pool[i]) = "keep"

\* x clamped to [18, 100]
Clamp18To100(x) == IF x < 18 THEN 18 ELSE IF x > 100 THEN 100 ELSE x

\* C22: for every N, the age range of a single-value age phrase is [lo, hi]
\* with 18 <= lo <= hi <= 100, lo and hi being N minus and plus the pattern's
\* tolerance, clamped to [18, 100].
C22_SingleAgeRangeClamped ==
  prompt_requirements # None =>
    \A c \in SingleAgeCases :
      prompt = c.p =>
        /\ prompt_requirements[1].age_range # None
        /\ \A range \in {prompt_requirements[1].age_range[1]} :
             /\ 18 <= range[1] /\ range[1] <= range[2] /\ range[2] <= 100
             /\ range[1] = Clamp18To100(c.N - c.tolerance)
             /\ range[2] = Clamp18To100(c.N + c.tolerance)

\* C23: "between N and M" is consulted only if no single-value age pattern
\* matched, and the bound phrases only if neither matched: a prompt with both a
\* single-value phrase and "between" yields the single-value range; one bound
\* phrase yields [N, 100] or [18, N].
C23_AgePrecedence ==
  prompt_requirements # None =>
    \A c \in PrecedenceCases :
      prompt = c.p => prompt_requirements[1].age_range = Some(c.range)

\* The gender constraint decided on the words of the prompt: female if a word
\* is in the female list, else male if a word is in the male list, else none
GenderByWords(prompt_lower) ==
  LET by(words) == IF words \cap female_terms # {} THEN "female"
                   ELSE IF words \cap male_terms # {} THEN "male"
                   ELSE ""
  IN  by(Range(findall_words(prompt_lower)))

\* C24: the gender constraint is female iff the prompt contains a word of the
\* female list, otherwise male iff it contains a word of the male list, and
\* otherwise absent (also when such letters occur only inside other words);
\* the LGBTQ+ flags do not depend on the gender outcome.
C24_GenderByWord ==
  (prompt_requirements # None /\ prompt # "") =>
    /\ prompt_requirements[1].gender = GenderByWords(lower(prompt))
    /\ prompt_requirements[1].lgbtq_friendly = AnyIn(lgbtq_terms, lower(prompt))

\* C25: relationship_type is the first of casual, serious, friendship,
\* professional whose term list has a term in the prompt (absent if none has);
\* the purpose list holds every one of emotional_support, education, career,
\* health whose term list matches, in that order; purpose_focused is true iff
\* the purpose list is non-empty.
C25_RelationshipFirstPurposesAll ==
  prompt_requirements # None =>
    /\ prompt_requirements[1].purpose_focused <=> prompt_requirements[1].purposes # << >>
    /\ \A c \in RelationshipCases :
         prompt = c.p =>
           /\ prompt_requirements[1].relationship_type = c.relationship_type
           /\ prompt_requirements[1].purposes = c.purposes

\* The prompt has terms of the casual, the serious and the friendship list,
\* and the relationship type is casual
C25_Witness ==
  /\ prompt = "casual dating with a friend"
  /\ prompt_requirements # None
  /\ AnyIn(serious_terms, prompt) /\ AnyIn(friendship_terms, prompt)
  /\ prompt_requirements[1].relationship_type = "casual"

\* The position of the first occurrence of x in seq
FirstOccurrence(seq, x) == CHOOSE i \in 1..Len(seq) : seq[i] = x /\ \A j \in 1..(i - 1) : seq[j] # x

\* keywords is the list of the word tokens in words that are no stop word,
\* longer than 2 and not purely numeric, each once, ordered by first occurrence
KeywordsOf(words, keywords) ==
  /\ \A i, j \in 1..Len(keywords) : i # j => keywords[i] # keywords[j]
  /\ \A k \in Range(keywords) :
       k \in Range(words) /\ k \notin stop_words /\ Len(k) > 2 /\ ~isdigit(k)
  /\ \A w \in Range(words) :
       (w \notin stop_words /\ Len(w) > 2 /\ ~isdigit(w)) => w \in Range(keywords)
  /\ \A i, j \in 1..Len(keywords) :
       i < j => FirstOccurrence(words, keywords[i]) < FirstOccurrence(words, keywords[j])

\* C26: the extracted keyword list has no duplicate, no stop word, no token of
\* length <= 2 and no purely numeric token, holds every other word token of the
\* lower-cased prompt, ordered by first occurrence, and is absent when no token
\* survives.
C26_KeywordList ==
  (prompt_requirements # None /\ prompt # "") =>
    KeywordsOf(findall_words(lower(prompt)), prompt_requirements[1].keywords)

\* The prompt repeats a word and has a stop word, a short token and a number;
\* the keyword list holds three words
C26_Witness ==
  /\ prompt = RepeatedWordPrompt
  /\ prompt_requirements # None
  /\ prompt_requirements[1].keywords = <<"music", "hiking", "more">>

\* expanded is concat without its repeated terms: every term of concat once,
\* in the order of first occurrence
FirstOccurrencesOf(concat, expanded) ==
  /\ \A i, j \in 1..Len(expanded) : i # j => expanded[i] # expanded[j]
  /\ Range(expanded) = Range(concat)
  /\ \A i, j \in 1..Len(expanded) :
       i < j => FirstOccurrence(concat, expanded[i]) < FirstOccurrence(concat, expanded[j])

\* The concatenation of the extracted keywords, the synonym block of each
\* detected purpose in purpose-list order, and the block of the relationship type
ExpansionSource(reqs) ==
  reqs.keywords
    \o ExtendAll(reqs.purposes, purpose_terms)
    \o (IF reqs.relationship_type = "" THEN << >> ELSE rel_terms[reqs.relationship_type])

\* C27: expand_prompt_keywords returns the concatenation of the extracted
\* keywords, the purpose blocks in purpose-list order and the relationship
\* block, keeping the first occurrence of each term; the extracted keywords are
\* a prefix of the result, and the result is empty for an empty requirement set.
C27_ExpansionIsDedupedConcatenation ==
  (prompt_requirements # None /\ coverage # None) =>
    /\ FirstOccurrencesOf(ExpansionSource(prompt_requirements[1]),
                          expand_prompt_keywords(prompt_requirements[1]))
    /\ SubSeq(expand_prompt_keywords(prompt_requirements[1]), 1,
              Len(prompt_requirements[1].keywords)) = prompt_requirements[1].keywords
    /\ ~Truthy(prompt_requirements[1]) => expand_prompt_keywords(prompt_requirements[1]) = << >>
    /\ prompt = "serious career mentor" =>
         expand_prompt_keywords(prompt_requirements[1]) =
           <<"serious", "career", "mentor", "job", "work", "professional", "mentorship",
             "advice", "business", "relationship", "long term", "committed", "partner",
             "dating">>

\* Keywords, a purpose block and a relationship block share terms, and the
\* result is shorter than their concatenation
C27_Witness ==
  /\ prompt = "serious career mentor"
  /\ prompt_requirements # None /\ coverage # None
  /\ Len(ExpansionSource(prompt_requirements[1])) = 17
  /\ Len(expand_prompt_keywords(prompt_requirements[1])) = 14

\* Two collected candidates with the same sort key
Tied(a, b) == a.criteria_coverage = b.criteria_coverage /\ a.match_score = b.match_score

\* C28: candidates with equal (criteria_coverage, match_score) appear in the
\* result in the same relative order as in the candidate pool.
C28_TiesKeepPoolOrder ==
  Succeeded =>
    \A i, j \in 1..Len(response[1].top_matches) :
      (i < j /\ Tied(response[1].top_matches[i], response[1].top_matches[j])) =>
        /\ PositionOf(response[1].top_matches[i].id) < PositionOf(response[1].top_matches[j].id)
        /\ response[1].matches[i].id = response[1].top_matches[i].id
        /\ response[1].matches[j].id = response[1].top_matches[j].id

\* Two tied candidates were returned, "h" before "b" as in the pool
C28_Witness ==
  /\ Succeeded
  /\ Len(response[1].matches) = 2
  /\ Tied(response[1].top_matches[1], response[1].top_matches[2])
  /\ response[1].matches[1].id = "h" /\ response[1].matches[2].id = "b"

(***************************************************************************)
(* Properties of the face verifier (checked under SpecFace)                *)
(***************************************************************************)

\* The duration check of the video analysed: at least 5 s, or at least 150
\* frames when the duration metadata is invalid
LongEnough ==
  IF is_invalid_duration(video_duration(video[1].fps, video[1].total_frames_in_video))
  THEN frame_count >= 150
  ELSE RatGe(video_duration(video[1].fps, video[1].total_frames_in_video), RatInt(5))

\* At least 90% of the frames the container reports were processed (all of
\* them when the metadata is invalid)
MostlyProcessed ==
  \/ is_invalid_duration(video_duration(video[1].fps, video[1].total_frames_in_video))
  \/ frame_count * 100 >= 90 * video[1].total_frames_in_video

\* C29: verify_video reports verified = true iff the video is not too short,
\* the face detection rate is > 0.5, all four required movements were detected,
\* each was held for at least 3 frames and at least 90% of the frames were
\* processed; and verified = true exactly when the reported confidence is 1.0.
C29_VerifiedIffAllChecks ==
  result # None =>
    /\ result[1].verified <=>
         /\ cap # None
         /\ LongEnough
         /\ 2 * face_detected_frames > frame_count
         /\ detected_movements = {"left", "right", "up", "down"}
         /\ \A m \in {"left", "right", "up", "down"} : movement_frames[m] >= 3
         /\ MostlyProcessed
    /\ result[1].verified <=> result[1].confidence = 100

\* A video of 312 frames with a face in every frame and every movement held
\* for 3 frames is verified
C29_Witness ==
  /\ result # None
  /\ result[1].verified
  /\ frame_count = 312 /\ face_detected_frames = 162
  /\ \A m \in {"left", "right", "up", "down"} : movement_frames[m] = 3

\* C30: whenever verify_video returns verified = false the reason names at
\* least one failed check; the reason is "Verification successful" only when
\* verified = true.
C30_FailureHasReason ==
  result # None =>
    /\ ~result[1].verified => result[1].reason # ""
    /\ result[1].reason = "Verification successful" => result[1].verified

====
